---------------------------- MODULE Spec2Model ----------------------------
(***************************************************************************)
(* Verdant survey runner: the step engine (runSurvey), the action executor *)
(* (executeDecision, waitForProgress), the deterministic strategy engine   *)
(* (deterministicSelection, chooseTextByRuleset, fallbackDecision) and the *)
(* decision source (requestLlmDecision and its providers).                 *)
(*                                                                         *)
(* Text is modelled as a sequence of word tokens (a TLA+ string per word); *)
(* "a b".includes("b") becomes "<<b>> is a contiguous run of <<a, b>>".     *)
(* The page is an uncooperative environment: every extraction may return   *)
(* any page of the universe Pages, and every awaited browser or file call  *)
(* may throw.                                                              *)
(***************************************************************************)
EXTENDS Integers, Sequences, FiniteSets, TLC

(***************************************************************************)
(* Bounds of the model.                                                    *)
(***************************************************************************)
\* largest value of the run input maxSteps that is explored
MaxStepsInput == 3

(***************************************************************************)
(* Program constants.                                                      *)
(***************************************************************************)
\* run-survey.ts:188   const maxSteps = run.maxSteps ?? 40
DefaultMaxSteps == 40
\* run-survey.ts:215   const maxRetries = 10
maxRetries == 10
\* actions.ts (part_004:194)   while (attempt < 2 && !actionSucceeded)
MaxAttempts == 2
\* run-survey.ts:460   if (stagnantSteps >= 2)
StagnationLimit == 2
\* run-survey.ts:51,68,84 / 98 / 109   confidence of the fallback decisions, in hundredths
FallbackConfidence == 35
FallbackNavConfidence == 30
FallbackBlockedConfidence == 20
\* run-survey.ts:320   timeoutMs: run.speedMode === 'fast' ? 12000 : 20000
FastDecisionTimeoutMs == 12000
ReliableDecisionTimeoutMs == 20000
\* strategy.ts (part_004:435)   ruleset?.multiSelect?.n ?? 2
DefaultMultiN == 2

(***************************************************************************)
(* Generic helpers.                                                        *)
(***************************************************************************)
Max(a, b) == IF a >= b THEN a ELSE b
Min(a, b) == IF a <= b THEN a ELSE b
Last(s) == s[Len(s)]

\* Array.prototype.includes on a sequence
SeqIncludes(s, x) == \E i \in 1..Len(s) : s[i] = x

\* String.prototype.includes at word granularity: needle is a contiguous run of hay
Includes(hay, needle) ==
    \E i \in 0..(Len(hay) - Len(needle)) :
        \A j \in 1..Len(needle) : hay[i + j] = needle[j]

\* Array.prototype.join(' ') of a sequence of texts
RECURSIVE JoinTexts(_)
JoinTexts(texts) ==
    IF texts = <<>> THEN <<>> ELSE Head(texts) \o JoinTexts(Tail(texts))

\* String.prototype.toLowerCase on one word of the vocabulary
LowerWord(w) ==
    CASE w = "A" -> "a"
      [] w = "B" -> "b"
      [] w = "Thank" -> "thank"
      [] w = "You" -> "you"
      [] w = "Next" -> "next"
      [] w = "Submit" -> "submit"
      [] w = "Complete" -> "complete"
      [] w = "Email" -> "email"
      [] OTHER -> w

\* String.prototype.toLowerCase on a text
ToLowerCase(text) == [i \in 1..Len(text) |-> LowerWord(text[i])]

(***************************************************************************)
(* QuestionState (types/index.ts) and the universe of pages.               *)
(***************************************************************************)
NoProgress == [isNull |-> TRUE, text |-> <<>>]
ProgressOf(text) == [isNull |-> FALSE, text |-> text]

\* a URL string: parseable by new URL() or not, and its hostname as dot-separated labels
Url(labels) == [parseable |-> TRUE, hostname |-> labels]
BadUrl == [parseable |-> FALSE, hostname |-> <<>>]

SurveyHost == <<"survey", "example", "com">>
ProviderHost == <<"form", "typeform", "com">>
ExternalHost == <<"shop", "example", "org">>

QuestionState(q, sup, it, opts, fv, nav, prog, vic, url) ==
    [questionText |-> q, supportText |-> sup, inputType |-> it, options |-> opts,
     filledValue |-> fv, navigationButtons |-> nav, progress |-> prog,
     visibleInputCount |-> vic, url |-> url]

Opt(label, selected) == [label |-> label, selected |-> selected]

\* a single-select question, nothing selected
PageSingle ==
    QuestionState(<<"pick", "one">>, <<>>, "single_select",
                  <<Opt("A", FALSE), Opt("B", FALSE)>>, <<>>, <<"Next">>,
                  NoProgress, 2, Url(SurveyHost))
\* the same question with option A selected
PageSingleSel ==
    QuestionState(<<"pick", "one">>, <<>>, "single_select",
                  <<Opt("A", TRUE), Opt("B", FALSE)>>, <<>>, <<"Next">>,
                  NoProgress, 2, Url(SurveyHost))
\* the same question with a completion phrase in a secondary heading
PageSingleDone ==
    QuestionState(<<"pick", "one">>, <<<<"submitted">>>>, "single_select",
                  <<Opt("A", FALSE), Opt("B", FALSE)>>, <<>>, <<"Next">>,
                  NoProgress, 2, Url(SurveyHost))
\* the same question served from a host outside the allow-list
PageExternal ==
    QuestionState(<<"pick", "one">>, <<>>, "single_select",
                  <<Opt("A", FALSE), Opt("B", FALSE)>>, <<>>, <<"Next">>,
                  NoProgress, 2, Url(ExternalHost))
\* a text question on an allow-listed provider host, with a submit button
PageText ==
    QuestionState(<<"questions", "to", "complete">>, <<>>, "text",
                  <<>>, <<>>, <<"Submit">>,
                  ProgressOf(<<"50%">>), 1, Url(ProviderHost))
\* a confirmation page: no input, no navigation button
PageThanks ==
    QuestionState(<<"Thank", "You">>, <<>>, "unknown",
                  <<>>, <<>>, <<>>, NoProgress, 0, Url(SurveyHost))
\* a page on which nothing was found, taken from a frame with an empty URL
PageBlank ==
    QuestionState(<<>>, <<>>, "unknown",
                  <<>>, <<>>, <<>>, NoProgress, 0, BadUrl)

Pages == {PageSingle, PageSingleSel, PageSingleDone, PageExternal, PageText,
          PageThanks, PageBlank}

NoState == [none |-> TRUE]

(***************************************************************************)
(* extractor/question-state.ts (part_003)                                  *)
(***************************************************************************)
isValidSurveySurface(state) ==
    IF state.visibleInputCount > 0 THEN TRUE
    ELSE Len(state.navigationButtons) > 0

\* the words of the vocabulary that contain a '|', cut at it; none begins or ends with
\* one, so that two neighbouring pieces other than "|" are always a space apart
Pieces(w) ==
    CASE w = "Q|1" -> <<"Q", "|", "1">>
      [] w = "1|2" -> <<"1", "|", "2">>
      [] OTHER -> <<w>>

RECURSIVE Cut(_)
Cut(text) == IF text = <<>> THEN <<>> ELSE Pieces(Head(text)) \o Cut(Tail(text))

\* a text as a template string renders it, in pieces: a '|' of the text is the same
\* character as a '|' of the template
Rendered(text) ==
    IF \A i \in DOMAIN text : text[i] \notin {"Q|1", "1|2"} THEN text ELSE Cut(text)

\* `${label}:${selected ? '1' : '0'}` joined by ','
RECURSIVE OptionsFingerprint(_)
OptionsFingerprint(opts) ==
    IF opts = <<>> THEN <<>>
    ELSE Pieces(Head(opts).label) \o <<":", IF Head(opts).selected THEN "1" ELSE "0">>
         \o (IF Len(opts) > 1 THEN <<",">> ELSE <<>>)
         \o OptionsFingerprint(Tail(opts))

\* a fingerprint that also renders the input type
stateFingerprintTyped(state) ==
    Rendered(state.questionText) \o <<"|">>
    \o (IF state.progress.isNull THEN <<>> ELSE Rendered(state.progress.text)) \o <<"|">>
    \o OptionsFingerprint(state.options) \o <<"|">>
    \o Rendered(state.filledValue) \o <<"|", state.inputType>>

\* `${questionText}|${progress ?? ''}|${options...}|${filledValue}`
stateFingerprint(state) ==
    Rendered(state.questionText) \o <<"|">>
    \o (IF state.progress.isNull THEN <<>> ELSE Rendered(state.progress.text)) \o <<"|">>
    \o OptionsFingerprint(state.options) \o <<"|">>
    \o Rendered(state.filledValue)

\* part_003:4   NAVIGATION_LABEL.test(label), on the label vocabulary
IsNavigationLabel(label) ==
    LowerWord(label) \in {"next", "continue", "ok", "submit", "done", "finish", "start",
                          "send", "complete", "previous", "back"}

\* Map.prototype.has on the options map, kept as its entries in insertion order
OptionsHas(existing, label) == \E i \in DOMAIN existing : existing[i].label = label

\* mutant: a label already in the map keeps its option
OptionsSetIfAbsent(existing, option) == IF OptionsHas(existing, option.label) THEN existing ELSE Append(existing, option)

\* Map.prototype.set: the value of a key already present is replaced where it stands, a
\* new key is added at the end
OptionsSet(existing, option) ==
    IF OptionsHas(existing, option.label)
    THEN [i \in DOMAIN existing |->
             IF existing[i].label = option.label THEN option ELSE existing[i]]
    ELSE Append(existing, option)

\* part_003:60-115   the elements are [label, selected, readable]: readable is false for
\* an element that is not visible or whose reading throws
RECURSIVE readOptionsFromRole(_, _)
readOptionsFromRole(items, existing) ==
    IF items = <<>> THEN existing
    ELSE LET item == Head(items)
         IN  IF ~item.readable \/ item.label = ""
             THEN readOptionsFromRole(Tail(items), existing)
             ELSE readOptionsFromRole(Tail(items),
                                      OptionsSet(existing, Opt(item.label, item.selected)))

\* part_003:117-144
RECURSIVE readOptionButtons(_, _)
readOptionButtons(items, existing) ==
    IF items = <<>> THEN existing
    ELSE LET item == Head(items)
         IN  IF ~item.readable \/ item.label = "" \/ IsNavigationLabel(item.label)
             THEN readOptionButtons(Tail(items), existing)
             ELSE IF ~OptionsHas(existing, item.label)
             THEN readOptionButtons(Tail(items),
                                    OptionsSet(existing, Opt(item.label, item.selected)))
             ELSE readOptionButtons(Tail(items), existing)

\* part_003:222-225, 260   the options of the state extracted from one context
extractOptions(radios, checkboxes, buttons) ==
    readOptionButtons(buttons,
        readOptionsFromRole(checkboxes, readOptionsFromRole(radios, <<>>)))

Threw == [threw |-> TRUE]

\* a frame of the page: whether it is the main frame, and what waiting for it and
\* extracting from it yields, a snapshot or an exception
Frame(isMain, outcome) == [isMain |-> isMain, outcome |-> outcome]

\* mutant: the main frame is tried again with the others
RECURSIVE FirstValidFrameWithMain(_, _)
FirstValidFrameWithMain(frames, primary) ==
    IF frames = <<>> THEN primary
    ELSE IF Head(frames).outcome = Threw THEN FirstValidFrameWithMain(Tail(frames), primary)
    ELSE IF isValidSurveySurface(Head(frames).outcome) THEN Head(frames).outcome
    ELSE FirstValidFrameWithMain(Tail(frames), primary)

\* part_003:289-308   the loop over context.frames()
RECURSIVE FirstValidFrame(_, _)
FirstValidFrame(frames, primary) ==
    IF frames = <<>> THEN primary
    ELSE IF Head(frames).isMain THEN FirstValidFrame(Tail(frames), primary)
    ELSE IF Head(frames).outcome = Threw THEN FirstValidFrame(Tail(frames), primary)
    ELSE IF isValidSurveySurface(Head(frames).outcome) THEN Head(frames).outcome
    ELSE FirstValidFrame(Tail(frames), primary)

\* part_003:277-311   extractQuestionState on a page: primary is what extractFromContext
\* yields on the page itself
extractQuestionState(primary, frames) ==
    IF primary = Threw THEN Threw
    ELSE IF isValidSurveySurface(primary) THEN primary
    ELSE FirstValidFrame(frames, primary)

(***************************************************************************)
(* The pure functions of the engine are studied one call at a time: a      *)
(* function and two argument lists, and what the function returned for     *)
(* each, with whatever a call could read besides its arguments in between. *)
(***************************************************************************)
VARIABLES
    call,             \* the function under study and the arguments of its two calls
    returned,         \* the values the calls made so far returned
    entropy           \* what a call could read besides its arguments: the clock,
                      \* the state of Math.random, the number of calls made

functionVars == <<call, returned, entropy>>

NoCall == [fn |-> "none"]

(***************************************************************************)
(* strategy.ts (part_004:372-459): the deterministic strategy engine.      *)
(***************************************************************************)
Undefined == [defined |-> FALSE]
Def(v) == [defined |-> TRUE, value |-> v]
\* x ?? d
OrElse(x, d) == IF x.defined THEN x.value ELSE d

\* String.prototype.charCodeAt over one word of the vocabulary
WordCodes(w) ==
    CASE w = "pick" -> <<112, 105, 99, 107>>
      [] w = "one" -> <<111, 110, 101>>
      [] w = "questions" -> <<113, 117, 101, 115, 116, 105, 111, 110, 115>>
      [] w = "to" -> <<116, 111>>
      [] w = "complete" -> <<99, 111, 109, 112, 108, 101, 116, 101>>
      [] w = "Thank" -> <<84, 104, 97, 110, 107>>
      [] w = "You" -> <<89, 111, 117>>
      [] w = "r1" -> <<114, 49>>
      [] w = "r2" -> <<114, 50>>
      [] w = "r3" -> <<114, 51>>
      [] OTHER -> <<63>>

\* the char codes of a text: its words separated by a space
RECURSIVE TextCodes(_)
TextCodes(text) ==
    IF text = <<>> THEN <<>>
    ELSE WordCodes(Head(text))
         \o (IF Len(text) > 1 THEN <<32>> ELSE <<>>)
         \o TextCodes(Tail(text))

\* `${runId}:${questionText}`
Seed(runId, questionText) == WordCodes(runId) \o <<58>> \o TextCodes(questionText)
\* the char codes of the decimal digits of k
RECURSIVE DigitCodes(_)
DigitCodes(k) == IF k < 10 THEN <<48 + k>> ELSE DigitCodes(k \div 10) \o <<48 + (k % 10)>>

\* `${runId}:${questionText}:${k}`
SeedK(runId, questionText, k) == Seed(runId, questionText) \o <<58>> \o DigitCodes(k)

\* hash = (hash * 31 + code) >>> 0, the 32-bit value kept as two 16-bit halves
RECURSIVE HashFrom(_, _, _)
HashFrom(hi, lo, codes) ==
    IF codes = <<>> THEN [hi |-> hi, lo |-> lo]
    ELSE LET l == lo * 31 + Head(codes)
         IN  HashFrom((hi * 31 + (l \div 65536)) % 65536, l % 65536, Tail(codes))

\* variant of seededIndex that draws from the process-wide random source
seededIndexUnseeded(seed, length) == IF length = 0 THEN 0 ELSE entropy % length

seededIndex(seed, length) ==
    LET h == HashFrom(0, 0, seed)
    IN  IF length = 0 THEN 0
        ELSE ((h.hi % length) * (65536 % length) + h.lo) % length

\* mutant: pickByMode returns the first label whatever the mode
pickByModeFirst(labels, mode, seed) == IF Len(labels) = 0 THEN "" ELSE labels[1]

pickByMode(labels, mode, seed) ==
    IF Len(labels) = 0 THEN ""
    ELSE IF mode = "first" THEN labels[1]
    ELSE IF mode = "last" THEN labels[Len(labels)]
    ELSE labels[seededIndex(seed, Len(labels)) + 1]

\* Array.prototype.filter(Boolean) on labels: the empty string is falsy
FilterTruthy(labels) == SelectSeq(labels, LAMBDA l : l /= "")

\* variant of SpliceOut that removes the first element whatever idx is
SpliceOutHead(s, idx) == Tail(s)

\* chosen.splice(idx, 1) with a 0-based idx: the remaining array
SpliceOut(s, idx) == [i \in 1..(Len(s) - 1) |-> IF i <= idx THEN s[i] ELSE s[i + 1]]

\* the random_n loop: while (chosen.length > 0 && result.length < n)
RECURSIVE RandomN(_, _, _, _, _)
RandomN(chosen, result, n, runId, questionText) ==
    IF ~(Len(chosen) > 0 /\ Len(result) < n) THEN result
    ELSE LET idx == seededIndex(SeedK(runId, questionText, Len(result)), Len(chosen))
             label == chosen[idx + 1]
         IN  RandomN(SpliceOut(chosen, idx),
                     IF label /= "" THEN Append(result, label) ELSE result,
                     n, runId, questionText)

\* the number of passes the random_n loop makes
RECURSIVE RandomNPasses(_, _, _, _, _)
RandomNPasses(chosen, result, n, runId, questionText) ==
    IF ~(Len(chosen) > 0 /\ Len(result) < n) THEN 0
    ELSE LET idx == seededIndex(SeedK(runId, questionText, Len(result)), Len(chosen))
             label == chosen[idx + 1]
         IN  1 + RandomNPasses(SpliceOut(chosen, idx),
                               IF label /= "" THEN Append(result, label) ELSE result,
                               n, runId, questionText)

\* the segment of a template string: an empty text still leaves its separators
Seg(text) == IF text = <<>> THEN <<"">> ELSE text

\* variant of FindKeyword in which the last matching entry wins
RECURSIVE FindKeywordLast(_, _)
FindKeywordLast(entries, haystack) ==
    IF entries = <<>> THEN Undefined
    ELSE IF Includes(haystack, ToLowerCase(entries[Len(entries)].key))
         THEN Def(entries[Len(entries)].value)
         ELSE FindKeywordLast(SubSeq(entries, 1, Len(entries) - 1), haystack)

\* the first entry of Object.entries(byKeyword) whose key occurs in the haystack
RECURSIVE FindKeyword(_, _)
FindKeyword(entries, haystack) ==
    IF entries = <<>> THEN Undefined
    ELSE IF Includes(haystack, ToLowerCase(Head(entries).key))
         THEN Def(Head(entries).value)
         ELSE FindKeyword(Tail(entries), haystack)

AutoTestResponse == <<"AUTO_TEST_RESPONSE">>

chooseTextByRuleset(state, ruleset) ==
    LET textRules == IF ruleset.defined THEN ruleset.value.text ELSE Undefined
        defaultValue == IF textRules.defined
                        THEN OrElse(textRules.value.default, AutoTestResponse)
                        ELSE AutoTestResponse
        byKeyword == IF textRules.defined THEN textRules.value.byKeyword ELSE <<>>
        haystack == ToLowerCase(Seg(state.questionText) \o Seg(JoinTexts(state.supportText)))
    IN  OrElse(FindKeyword(byKeyword, haystack), defaultValue)

\* variant of MultiN without the lower bound
MultiNUnbounded(multi) == IF multi.defined THEN OrElse(multi.value.n, DefaultMultiN) ELSE DefaultMultiN

\* part_004:435   Math.max(1, ruleset?.multiSelect?.n ?? 2)
MultiN(multi) ==
    Max(1, IF multi.defined THEN OrElse(multi.value.n, DefaultMultiN) ELSE DefaultMultiN)

deterministicSelection(state, strategy, ruleset, runId) ==
    LET labels == [i \in 1..Len(state.options) |-> state.options[i].label]
        seed == Seed(runId, state.questionText)
    IN  IF Len(labels) = 0 THEN <<>>
        ELSE IF strategy /= "ruleset"
        THEN LET mode == IF strategy = "first" THEN "first"
                         ELSE IF strategy = "last" THEN "last" ELSE "random"
             IN  IF state.inputType = "multi_select"
                 THEN LET picked == pickByMode(labels, mode, seed)
                      IN  IF picked /= "" THEN <<picked>> ELSE <<>>
                 ELSE FilterTruthy(<<pickByMode(labels, mode, seed)>>)
        ELSE IF state.inputType = "multi_select"
        THEN LET multi == IF ruleset.defined THEN ruleset.value.multiSelect ELSE Undefined
                 mode == IF multi.defined THEN multi.value.mode ELSE "first_n"
                 n == MultiN(multi)
             IN  IF mode = "all" THEN labels
                 ELSE IF mode = "random_n"
                 THEN RandomN(labels, <<>>, n, runId, state.questionText)
                 ELSE SubSeq(labels, 1, Min(n, Len(labels)))
        ELSE LET singleMode == IF ruleset.defined
                               THEN OrElse(ruleset.value.singleSelect, "first")
                               ELSE "first"
             IN  FilterTruthy(<<pickByMode(labels, singleMode, seed)>>)

(***************************************************************************)
(* Decision (llm/types.ts, part_006:24-32); confidence in hundredths.      *)
(***************************************************************************)
Decision(action, selections, text, confidence, shot, assertions) ==
    [action |-> action, selections |-> selections, text |-> text,
     confidence |-> confidence, needs_screenshot |-> shot, assertions |-> assertions]

NoDecision == [none |-> TRUE]

\* /submit|finish|done|complete/i.test(button), on the button vocabulary
IsSubmitLike(button) == LowerWord(button) \in {"submit", "finish", "done", "complete"}

\* mutant: the fallback reports the confidence of a primary judgment
fallbackDecisionConfident(runId, state, strategy, ruleset) ==
    LET multi == deterministicSelection(state, strategy, ruleset, runId)
    IN  IF state.inputType = "text"
        THEN Decision("type_text", <<>>, chooseTextByRuleset(state, ruleset), 90, FALSE, <<>>)
        ELSE IF state.inputType \in {"single_select", "yes_no"} /\ Len(multi) > 0
        THEN Decision("select_single", <<multi[1]>>, <<>>, 90, FALSE, <<>>)
        ELSE IF state.inputType = "multi_select" /\ Len(multi) > 0
        THEN Decision("select_multi", multi, <<>>, 90, FALSE, <<>>)
        ELSE IF Len(state.navigationButtons) > 0
        THEN Decision(IF \E i \in 1..Len(state.navigationButtons) :
                             IsSubmitLike(state.navigationButtons[i])
                      THEN "click_submit" ELSE "click_next",
                      <<>>, <<>>, 90, FALSE, <<>>)
        ELSE Decision("cannot_proceed", <<>>, <<>>, 90, TRUE, <<>>)

\* mutant: an answered question is not answered again, the fallback navigates
fallbackDecisionUnlessAnswered(runId, state, strategy, ruleset) ==
    LET multi == deterministicSelection(state, strategy, ruleset, runId)
        answered == \/ \E i \in 1..Len(state.options) : state.options[i].selected
                    \/ state.filledValue /= <<>>
    IN  IF state.inputType = "text" /\ ~answered
        THEN Decision("type_text", <<>>, chooseTextByRuleset(state, ruleset),
                      FallbackConfidence, FALSE, <<>>)
        ELSE IF state.inputType \in {"single_select", "yes_no"} /\ Len(multi) > 0 /\ ~answered
        THEN Decision("select_single", <<multi[1]>>, <<>>, FallbackConfidence, FALSE, <<>>)
        ELSE IF state.inputType = "multi_select" /\ Len(multi) > 0 /\ ~answered
        THEN Decision("select_multi", multi, <<>>, FallbackConfidence, FALSE, <<>>)
        ELSE IF Len(state.navigationButtons) > 0
        THEN Decision(IF \E i \in 1..Len(state.navigationButtons) :
                             IsSubmitLike(state.navigationButtons[i])
                      THEN "click_submit" ELSE "click_next",
                      <<>>, <<>>, FallbackNavConfidence, FALSE, <<>>)
        ELSE Decision("cannot_proceed", <<>>, <<>>, FallbackBlockedConfidence, TRUE, <<>>)

\* run-survey.ts:38-114
fallbackDecision(runId, state, strategy, ruleset) ==
    LET single == SubSeq(deterministicSelection(state, strategy, ruleset, runId), 1,
                         Min(1, Len(deterministicSelection(state, strategy, ruleset, runId))))
        multi == deterministicSelection(state, strategy, ruleset, runId)
    IN  IF state.inputType = "text"
        THEN Decision("type_text", <<>>, chooseTextByRuleset(state, ruleset),
                      FallbackConfidence, FALSE, <<>>)
        ELSE IF state.inputType \in {"single_select", "yes_no"} /\ Len(single) > 0
        THEN Decision("select_single", single, <<>>, FallbackConfidence, FALSE, <<>>)
        ELSE IF state.inputType = "multi_select" /\ Len(multi) > 0
        THEN Decision("select_multi", multi, <<>>, FallbackConfidence, FALSE, <<>>)
        ELSE IF Len(state.navigationButtons) > 0
        THEN Decision(IF \E i \in 1..Len(state.navigationButtons) :
                             IsSubmitLike(state.navigationButtons[i])
                      THEN "click_submit" ELSE "click_next",
                      <<>>, <<>>, FallbackNavConfidence, FALSE, <<>>)
        ELSE Decision("cannot_proceed", <<>>, <<>>, FallbackBlockedConfidence, TRUE, <<>>)

(***************************************************************************)
(* run-survey.ts:116-134 and 273-295: the checks made on a fresh state.    *)
(***************************************************************************)
\* the words of the vocabulary in which /thanks|submitted|successfully/ finds a match
CompletionWords == {"thanks", "submitted", "successfully"}

\* mutant: completion is also inferred from the absence of inputs
isCompletionLikelyOrNoInputs(state) ==
    LET text == ToLowerCase(Seg(state.questionText) \o Seg(JoinTexts(state.supportText)))
    IN  \/ \E i \in 1..Len(text) : text[i] \in CompletionWords \cup {"completed", "finished"}
        \/ \E i \in 1..(Len(text) - 1) :
               \/ text[i] = "thank" /\ text[i + 1] = "you"
               \/ text[i] = "start" /\ text[i + 1] = "again"
        \/ state.visibleInputCount = 0

isCompletionLikely(state) ==
    LET text == ToLowerCase(Seg(state.questionText) \o Seg(JoinTexts(state.supportText)))
    IN  IF \/ \E i \in 1..Len(text) : text[i] \in CompletionWords
           \/ \E i \in 1..(Len(text) - 1) :
                  \/ text[i] = "thank" /\ text[i + 1] = "you"
                  \/ text[i] = "start" /\ text[i + 1] = "again"
        THEN TRUE
        ELSE IF \E i \in 1..Len(text) : text[i] \in {"completed", "finished"}
        THEN TRUE
        ELSE FALSE

\* /typeform\.com|surveymonkey\.com|qualtrics\.com|google\.com\/forms|forms\.gle/
\* on a hostname given as labels; no hostname holds a '/', so the fourth never matches
isKnownSurveyProvider(hostname) ==
    \/ Includes(hostname, <<"typeform", "com">>)
    \/ Includes(hostname, <<"surveymonkey", "com">>)
    \/ Includes(hostname, <<"qualtrics", "com">>)
    \/ Includes(hostname, <<"google", "com/forms">>)
    \/ Includes(hostname, <<"forms", "gle">>)

\* mutant: the departure check without its first-step exemption
ExitedToExternalDomainAnyStep(state, surveyUrl, step) ==
    /\ state.url.parseable /\ surveyUrl.parseable
    /\ state.url.hostname /= surveyUrl.hostname
    /\ ~isKnownSurveyProvider(state.url.hostname)

\* run-survey.ts:274-295: TRUE when the loop breaks on a departure to another host
ExitedToExternalDomain(state, surveyUrl, step) ==
    IF ~(state.url.parseable /\ surveyUrl.parseable) THEN FALSE
    ELSE IF state.url.hostname /= surveyUrl.hostname
    THEN IF isKnownSurveyProvider(state.url.hostname) THEN FALSE
         ELSE step > 1
    ELSE FALSE

(***************************************************************************)
(* executor/actions.ts (part_004:1-253): the pure parts of executeDecision.*)
(***************************************************************************)
\* the results perform() (with verifyTextFilled for type_text) can have for a decision:
\* a select with no label returns false without touching the page
PerformOutcomes(decision) ==
    IF decision.action \in {"select_single", "select_multi"} /\ decision.selections = <<>>
    THEN {"false"}
    ELSE IF decision.action = "cannot_proceed" THEN {"true"}
    ELSE {"true", "false", "throw"}

\* mutant: the action is tried once, without a local retry
AttemptLoopRunsOnce(attempt, actionSucceeded) == attempt < 1 /\ ~actionSucceeded

\* mutant: the loop does not stop at a successful attempt
AttemptLoopRunsAfterSuccess(attempt, actionSucceeded) == attempt < MaxAttempts

\* part_004:194   while (attempt < 2 && !actionSucceeded)
AttemptLoopRuns(attempt, actionSucceeded) == attempt < MaxAttempts /\ ~actionSucceeded

\* mutant: any change of the fingerprint counts, valid surface or not
PollShowsProgressOnAnyChange(before, polled) == stateFingerprint(polled) /= stateFingerprint(before)

\* part_004:107-110   the test of one poll of waitForProgress
PollShowsProgress(before, polled) ==
    IF stateFingerprint(polled) /= stateFingerprint(before)
    THEN isValidSurveySurface(polled)
    ELSE FALSE

\* part_004:92-124   waitForProgress as a function of what the page shows: polls are the
\* states extracted by the iterations the timeout leaves room for, final the state
\* extracted once the loop has ended
RECURSIVE waitForProgress(_, _, _)
waitForProgress(before, polls, final) ==
    IF polls = <<>> THEN [progressed |-> FALSE, afterState |-> final]
    ELSE IF PollShowsProgress(before, Head(polls))
         THEN [progressed |-> TRUE, afterState |-> Head(polls)]
         ELSE waitForProgress(before, Tail(polls), final)

\* part_004:126-133
checkAssertion(assertion, state) ==
    LET selected == SelectSeq(state.options, LAMBDA o : o.selected)
        labels == [i \in 1..Len(selected) |-> selected[i].label]
        haystack == ToLowerCase(Seg(state.questionText) \o Seg(JoinTexts(state.supportText))
                                \o Seg(labels) \o Seg(state.filledValue))
    IN  Includes(haystack, ToLowerCase(assertion))

SelectionNotReflected(label) == <<"Selection not reflected:", label>>
TypedTextNotVisible == <<"Typed text is not visible in the input.">>
NavigatedToNextStep == <<"Successfully navigated to next step.">>

\* mutant: the declared assertions are checked on the after-state whatever its question
EvaluateAssertionsAlways(beforeState, decision, afterState) ==
    [assertionsPassed |-> SelectSeq(decision.assertions,
                                    LAMBDA a : checkAssertion(a, afterState)),
     assertionsFailed |-> SelectSeq(decision.assertions,
                                    LAMBDA a : ~checkAssertion(a, afterState))]

\* part_004:212-244   [assertionsPassed, assertionsFailed] of a decision on the after-state
EvaluateAssertions(beforeState, decision, afterState) ==
    LET questionChanged == beforeState.questionText /= afterState.questionText
        declaredPassed == SelectSeq(decision.assertions,
                                    LAMBDA a : checkAssertion(a, afterState))
        declaredFailed == SelectSeq(decision.assertions,
                                    LAMBDA a : ~checkAssertion(a, afterState))
        selectedOpts == SelectSeq(afterState.options, LAMBDA o : o.selected)
        selectedLabels == [i \in 1..Len(selectedOpts) |-> LowerWord(selectedOpts[i].label)]
        missing == SelectSeq(decision.selections,
                             LAMBDA l : ~SeqIncludes(selectedLabels, LowerWord(l)))
        selectionFailed ==
            IF decision.action \in {"select_single", "select_multi"}
            THEN [i \in 1..Len(missing) |-> SelectionNotReflected(missing[i])]
            ELSE <<>>
        textFailed ==
            IF /\ decision.action = "type_text"
               /\ decision.text /= <<>>
               /\ ~Includes(afterState.filledValue, decision.text)
            THEN <<TypedTextNotVisible>>
            ELSE <<>>
    IN  IF ~questionChanged
        THEN [assertionsPassed |-> declaredPassed,
              assertionsFailed |-> declaredFailed \o selectionFailed \o textFailed]
        ELSE [assertionsPassed |-> <<NavigatedToNextStep>>, assertionsFailed |-> <<>>]

\* part_004:246-252   the value executeDecision returns
Execution(actionSucceeded, progressed, afterState, beforeState, decision) ==
    LET a == EvaluateAssertions(beforeState, decision, afterState)
    IN  [actionSucceeded |-> actionSucceeded, progressed |-> progressed,
         afterState |-> afterState, assertionsPassed |-> a.assertionsPassed,
         assertionsFailed |-> a.assertionsFailed]

NoExecution == [none |-> TRUE]

(***************************************************************************)
(* run-survey.ts:352-474: the decisions of the step engine.                *)
(***************************************************************************)
\* mutant: a cannot_proceed decision is handed to the executor like any other
DecisionOutcomeNoGiveUp(completeSurvey, step, decision) ==
    IF ~completeSurvey /\ step > 1 THEN "stop_before_completion" ELSE "execute"

\* mutant: completeSurvey = false does not stop the run
DecisionOutcomeNeverStops(completeSurvey, step, decision) == IF decision.action = "cannot_proceed" THEN "cannot_proceed" ELSE "execute"

\* run-survey.ts:352-379   what follows a decision: stop, give up, or execute it
DecisionOutcome(completeSurvey, step, decision) ==
    IF ~completeSurvey /\ step > 1 THEN "stop_before_completion"
    ELSE IF decision.action = "cannot_proceed" THEN "cannot_proceed"
    ELSE "execute"

\* mutant: failed assertions do not override the fingerprint
StepProgressedIgnoringAssertions(beforeState, execution) ==
    \/ execution.progressed
    \/ stateFingerprint(execution.afterState) /= stateFingerprint(beforeState)

\* mutant: a changed fingerprint counts only when the after-state is a valid surface
StepProgressedOnValidSurface(beforeState, execution) ==
    /\ Len(execution.assertionsFailed) = 0
    /\ \/ execution.progressed
       \/ /\ stateFingerprint(execution.afterState) /= stateFingerprint(beforeState)
          /\ isValidSurveySurface(execution.afterState)

\* run-survey.ts:397-409   the progressed flag of the step
StepProgressed(beforeState, execution) ==
    LET byFingerprint ==
            \/ execution.progressed
            \/ stateFingerprint(execution.afterState) /= stateFingerprint(beforeState)
    IN  IF Len(execution.assertionsFailed) > 0 THEN FALSE ELSE byFingerprint

\* mutant: a progressed step leaves the stagnation counter as it is
NextStagnantStepsNoReset(stagnantSteps, progressed) == IF ~progressed THEN stagnantSteps + 1 ELSE stagnantSteps

\* run-survey.ts:411-415
NextStagnantSteps(stagnantSteps, progressed) ==
    IF ~progressed THEN stagnantSteps + 1 ELSE 0

\* part_004:210-252 and run-survey.ts:397-415   what becomes of a decision once its action
\* was attempted: the executor waits for progress and evaluates the assertions, the
\* engine computes the step's progressed flag and the stagnation counter
StepAfterAction(beforeState, decision, actionSucceeded, polls, final, stagnantSteps) ==
    LET waited == waitForProgress(beforeState, polls, final)
        execution == Execution(actionSucceeded, waited.progressed, waited.afterState,
                               beforeState, decision)
        progressed == StepProgressed(beforeState, execution)
    IN  [execution |-> execution, progressed |-> progressed,
         stagnantSteps |-> NextStagnantSteps(stagnantSteps, progressed)]

\* mutant: stagnation is detected one step late
StepOutcomeLateStagnation(decision, execution, progressed, stagnantSteps, step, maxSteps) ==
    IF decision.action = "click_submit"
       /\ (isCompletionLikely(execution.afterState) \/ ~progressed)
    THEN "submitted"
    ELSE IF isCompletionLikely(execution.afterState) THEN "complete"
    ELSE IF stagnantSteps > StagnationLimit THEN "stagnant"
    ELSE IF step = maxSteps THEN "max_steps"
    ELSE "continue"

\* mutant: the submit rule fires on completion text only
StepOutcomeSubmitOnCompletionOnly(decision, execution, progressed, stagnantSteps, step, maxSteps) ==
    IF decision.action = "click_submit" /\ isCompletionLikely(execution.afterState)
    THEN "submitted"
    ELSE IF isCompletionLikely(execution.afterState) THEN "complete"
    ELSE IF stagnantSteps >= StagnationLimit THEN "stagnant"
    ELSE IF step = maxSteps THEN "max_steps"
    ELSE "continue"

\* mutant: the step limit leaves the status untouched
StepOutcomeNoStepLimit(decision, execution, progressed, stagnantSteps, step, maxSteps) ==
    IF decision.action = "click_submit"
       /\ (isCompletionLikely(execution.afterState) \/ ~progressed)
    THEN "submitted"
    ELSE IF isCompletionLikely(execution.afterState) THEN "complete"
    ELSE IF stagnantSteps >= StagnationLimit THEN "stagnant"
    ELSE "continue"

\* run-survey.ts:448-474   how the step ends, in the order the code tests it
StepOutcome(decision, execution, progressed, stagnantSteps, step, maxSteps) ==
    IF decision.action = "click_submit"
       /\ (isCompletionLikely(execution.afterState) \/ ~progressed)
    THEN "submitted"
    ELSE IF isCompletionLikely(execution.afterState) THEN "complete"
    ELSE IF stagnantSteps >= StagnationLimit THEN "stagnant"
    ELSE IF step = maxSteps THEN "max_steps"
    ELSE "continue"

\* mutant: every StepResult carries the number of the first iteration
StepResultUnnumbered(step, actionSucceeded, progressed, failed) == [step |-> 1, actionSucceeded |-> actionSucceeded, progressed |-> progressed, failed |-> failed]

\* StepResult (types/index.ts), with the fields the control flow and the report's
\* status depend on; failed is assertionsFailed.length > 0
StepResult(step, actionSucceeded, progressed, failed) ==
    [step |-> step, actionSucceeded |-> actionSucceeded, progressed |-> progressed,
     failed |-> failed]

MsgInitial == "Survey run completed."
MsgNoSurface == "Survey page loaded but no visible question/input was detected."
MsgCompletionText == "Survey appears complete (detected completion text)."
MsgExternal == "Survey exited to external domain"
MsgStopped == "Stopped before completion because completeSurvey=false."
MsgCannotProceed == "LLM reported cannot_proceed"
MsgSubmitted == "Survey submission step executed."
MsgComplete == "Survey appears complete."
MsgStagnant == "Runner cannot progress after repeated attempts."
MsgMaxSteps == "Stopped after reaching maxSteps"
MsgException == "error.message"

(***************************************************************************)
(* The decision source (llm/client.ts and providers).                      *)
(***************************************************************************)
\* providers whose request goes through withTimeout(fetch, request.timeoutMs)
\* (openai: part_008:31-62, anthropic.ts:31-61); the others call a vendor SDK
\* and never read request.timeoutMs (groq.ts:4-34, xai.ts:4-36, deepseek.ts:4-36,
\* openrouter: deepseek.ts:41-76, google: part_007:4-36)
UsesFetchTimeout(provider) == provider \in {"openai", "anthropic"}

\* run-survey.ts:320
DecisionTimeoutMs(speedMode) ==
    IF speedMode = "fast" THEN FastDecisionTimeoutMs ELSE ReliableDecisionTimeoutMs

\* schema-valid decisions the decision source may return
LlmDecisions ==
    {Decision("select_single", <<"A">>, <<>>, 90, FALSE, <<>>),
     Decision("select_single", <<"B">>, <<>>, 80, FALSE, <<<<"zzz">>>>),
     Decision("select_multi", <<"a">>, <<>>, 70, FALSE, <<>>),
     Decision("type_text", <<>>, <<"hello">>, 90, FALSE, <<>>),
     Decision("click_next", <<>>, <<>>, 90, FALSE, <<<<"pick">>>>),
     Decision("click_submit", <<>>, <<>>, 90, FALSE, <<>>),
     Decision("click_submit", <<>>, <<>>, 60, FALSE, <<<<"zzz">>>>),
     Decision("cannot_proceed", <<>>, <<>>, 10, TRUE, <<>>)}

\* the state of one pending requestLlmDecision call:
\*   phase "fetch": withTimeout's fetch is pending and its abort timer is armed
\*   phase "body":  fetch resolved, the timer is cleared, the body is being read
\*   phase "sdk":   a vendor SDK call is pending, no timer of the engine is armed
\*   expired:       request.timeoutMs has elapsed since the call was made
LlmCall(phase, timeoutMs, expired) ==
    [phase |-> phase, timeoutMs |-> timeoutMs, expired |-> expired]
NoLlmCall == [none |-> TRUE]

(***************************************************************************)
(* RunSurveyInput (types/index.ts, part_004:350-370): the runs explored.   *)
(***************************************************************************)
RulesetB ==
    Def([singleSelect |-> Def("random"),
         multiSelect |-> Def([mode |-> "random_n", n |-> Def(2)]),
         text |-> Def([default |-> Def(<<"N/A">>),
                       byKeyword |-> <<[key |-> <<"Complete">>, value |-> <<"a@b.com">>]>>])])

Profiles ==
    {[runId |-> "r1", strategy |-> "first", ruleset |-> Undefined, speedMode |-> "fast",
      captureScreenshots |-> FALSE, recordVideo |-> FALSE,
      provider |-> "openai", apiKey |-> TRUE],
     [runId |-> "r2", strategy |-> "ruleset", ruleset |-> RulesetB, speedMode |-> "reliable",
      captureScreenshots |-> TRUE, recordVideo |-> TRUE,
      provider |-> "groq", apiKey |-> TRUE],
     [runId |-> "r3", strategy |-> "random", ruleset |-> Undefined, speedMode |-> "fast",
      captureScreenshots |-> FALSE, recordVideo |-> FALSE,
      provider |-> "anthropic", apiKey |-> FALSE]}

RunInputs ==
    {[profile |-> p, surveyUrl |-> Url(SurveyHost), completeSurvey |-> c, maxSteps |-> Def(m)] :
        p \in Profiles, c \in BOOLEAN, m \in 0..MaxStepsInput}

NoReport == [none |-> TRUE]

(***************************************************************************)
(* State.                                                                  *)
(***************************************************************************)
VARIABLES
    run,              \* the RunSurveyInput of the run
    pc,               \* where runSurvey is suspended
    status, message,  \* run-survey.ts:190-191
    steps,            \* run-survey.ts:189
    stagnantSteps,    \* run-survey.ts:240
    step,             \* run-survey.ts:242, 0 before the loop
    retries,          \* run-survey.ts:214
    initialState,     \* run-survey.ts:213
    state,            \* run-survey.ts:243, the state of the current iteration
    decision,         \* run-survey.ts:312
    source,           \* where decision came from: "llm", "fallback" or "none"
    llm,              \* the pending requestLlmDecision call
    attempt,          \* part_004:192
    performThrew,     \* ghost: the last pass of perform() threw (part_004:204-206)
    emitted,          \* ghost: the events emitted since the current step began
    actionSucceeded,  \* part_004:191
    execution,        \* run-survey.ts:383, the value executeDecision returned
    stuck,            \* history: every step executed so far left the fingerprint
                      \* unchanged and failed at least one assertion
    requests,         \* number of requestLlmDecision calls made
    executions,       \* number of executeDecision calls made
    browser, context, \* "none", "open" or "closed"
    report            \* the RunReport written by finalReport

\* App.tsx:75   useState<RunState | null>(null)
NoRunState == [none |-> TRUE]

\* the state of the runner service (run-controller.ts) and of the UI (App.tsx)
VARIABLES
    runs,             \* run-controller.ts:29, the run table, keyed by run id
    tasks,            \* the startRun calls made so far, each with its position,
                      \* the runId of its closure and the runId given to its engine
    published,        \* the set of envelopes emitted on the controller's emitter
    uuids,            \* number of UUIDs generated so far, by the server or the UI
    isBatchMode,      \* App.tsx:61
    batchQueue,       \* App.tsx:62
    batchResults,     \* App.tsx:63
    processingRunId,  \* App.tsx:64, 0 for null
    runId,            \* App.tsx:74, 0 for ''
    runState,         \* App.tsx:75
    isRunning,        \* App.tsx:82
    pending,          \* the UI's callbacks waiting to run: awaited requests, timers
    batch             \* ghost: the queue built by onRun

runVars ==
    <<run, pc, status, message, steps, stagnantSteps, step, retries, initialState,
      state, decision, source, llm, attempt, performThrew, actionSucceeded, execution,
      stuck, requests, executions, browser, context, report,
      emitted>>

\* what the actions of the service leave alone
engineVars == <<runVars, functionVars>>

controllerVars == <<runs, tasks, published>>

appVars ==
    <<isBatchMode, batchQueue, batchResults, processingRunId, runId, runState, isRunning,
      pending, batch>>

\* what the actions of the engine leave alone
service == <<controllerVars, uuids, appVars, functionVars>>

vars == <<engineVars, service>>

\* mutant: the loop runs one iteration past the limit
maxStepsAndOneMore == OrElse(run.maxSteps, DefaultMaxSteps) + 1

\* run-survey.ts:188
maxSteps == OrElse(run.maxSteps, DefaultMaxSteps)

\* no function is under study
NoFunction ==
    /\ call = NoCall
    /\ returned = <<>>
    /\ entropy = 0

\* run-controller.ts:29-30, App.tsx:60-82   no run started, nothing published, the
\* UI as it is first rendered
ServiceInit ==
    /\ runs = <<>>
    /\ tasks = <<>>
    /\ published = {}
    /\ uuids = 0
    /\ isBatchMode = FALSE
    /\ batchQueue = <<>>
    /\ batchResults = <<>>
    /\ processingRunId = 0
    /\ runId = 0
    /\ runState = NoRunState
    /\ isRunning = FALSE
    /\ pending = {}
    /\ batch = <<>>

Init ==
    /\ NoFunction
    /\ ServiceInit
    /\ run \in RunInputs
    /\ pc = "start"
    /\ status = "success"
    /\ message = MsgInitial
    /\ steps = <<>>
    /\ stagnantSteps = 0
    /\ step = 0
    /\ retries = 0
    /\ initialState = NoState
    /\ state = NoState
    /\ decision = NoDecision
    /\ source = "none"
    /\ llm = NoLlmCall
    /\ attempt = 0
    /\ performThrew = FALSE
    /\ emitted = <<>>
    /\ actionSucceeded = FALSE
    /\ execution = NoExecution
    /\ stuck = TRUE
    /\ requests = 0
    /\ executions = 0
    /\ browser = "none"
    /\ context = "none"
    /\ report = NoReport

\* EngineEvent (part_004:317-348) without its payload: type, the step the event
\* names (its step field, or the step number in a running status's message; 0 when
\* it names none) and a label for the call site. Debug logs are listed as in a
\* verbose run; without verbose the run emits the same events minus those
Ev(type, k, label) == [type |-> type, step |-> k, label |-> label]

\* run-survey.ts:244-264   the events that open iteration k
HeadEvents(k) ==
    <<Ev("state", k, "state"), Ev("log", k, "question"), Ev("status", k, "analyzing"),
      Ev("log", k, "raw-state")>>

\* run-survey.ts:282-285   the log of a redirect to an allow-listed provider
RedirectEvents(st) ==
    IF /\ st.url.parseable /\ run.surveyUrl.parseable
       /\ st.url.hostname /= run.surveyUrl.hostname
       /\ isKnownSurveyProvider(st.url.hostname)
    THEN <<Ev("log", 0, "allowed-redirect")>>
    ELSE <<>>

\* run-survey.ts:244-310   the events of iteration k up to the decision request
RequestEvents(k, st) == HeadEvents(k) \o RedirectEvents(st) \o <<Ev("log", k, "prompt")>>

\* variant of DecisionEvents that emits the pre-action artifact ahead of the decision
DecisionEventsArtifactFirst(k, d, src) ==
    (IF run.profile.captureScreenshots \/ d.needs_screenshot
     THEN <<Ev("artifact", k, "pre-action")>> ELSE <<>>)
    \o (IF src = "fallback" THEN <<Ev("log", k, "llm-failed")>> ELSE <<>>)
    \o <<Ev("decision", k, "decision"), Ev("log", k, "decision")>>

\* run-survey.ts:323-349   the events from the decision to the pre-action screenshot
DecisionEvents(k, d, src) ==
    (IF src = "fallback" THEN <<Ev("log", k, "llm-failed")>> ELSE <<>>)
    \o <<Ev("decision", k, "decision"), Ev("log", k, "decision")>>
    \o (IF run.profile.captureScreenshots \/ d.needs_screenshot
        THEN <<Ev("artifact", k, "pre-action")>> ELSE <<>>)

\* run-survey.ts:391-446   the events emitted once executeDecision has returned
OutcomeEvents(k, exec) ==
    <<Ev("status", k, "executing")>>
    \o (IF Len(exec.assertionsFailed) > 0
        THEN <<Ev("log", k, "marked-stagnant")>> ELSE <<>>)
    \o (IF ~exec.actionSucceeded THEN <<Ev("log", k, "action-failed")>> ELSE <<>>)
    \o (IF Len(exec.assertionsFailed) > 0
        THEN <<Ev("log", k, "assertions-failed")>> ELSE <<>>)

\* run-survey.ts:481-489   the events of the catch block: the error log and, when
\* screenshots are captured and the fatal screenshot succeeds, its artifact;
\* recorded is steps.length when the exception is caught
Caught(before, recorded) ==
    \E fatalShot \in (IF run.profile.captureScreenshots THEN BOOLEAN ELSE {FALSE}) :
        emitted' = before \o <<Ev("log", 0, "error")>>
                   \o (IF fatalShot THEN <<Ev("artifact", recorded + 1, "fatal")>>
                       ELSE <<>>)

\* the block-scoped values of a loop iteration, out of scope once the loop is left
ClearIteration ==
    /\ state' = NoState
    /\ decision' = NoDecision
    /\ source' = "none"
    /\ llm' = NoLlmCall
    /\ attempt' = 0 /\ performThrew' = FALSE
    /\ actionSucceeded' = FALSE
    /\ execution' = NoExecution

\* mutant: the catch records the error and the loop goes on
ThrowAndContinue ==
    /\ status' = "error"
    /\ message' = MsgException
    /\ pc' = "loop"
    /\ ClearIteration

\* run-survey.ts:477-490   an exception inside the try block
Throw ==
    /\ status' = "error"
    /\ message' = MsgException
    /\ pc' = "cleanup"
    /\ ClearIteration

\* run-survey.ts:193-203   ensureDir, chromium.launch, newContext, newPage
Launch ==
    /\ pc = "start"
    /\ \E outcome \in {"ok", "no_browser", "no_context"} :
         /\ browser' = IF outcome = "no_browser" THEN "none" ELSE "open"
         /\ context' = IF outcome = "ok" THEN "open" ELSE "none"
         /\ pc' = IF outcome = "ok" THEN "goto" ELSE "rejected"
         /\ emitted' = IF outcome = "ok" THEN <<Ev("log", 0, "opening")>> ELSE emitted
    /\ UNCHANGED <<service, run, stuck, status, message, steps, stagnantSteps, step, retries, initialState,
                   state, decision, source, llm, attempt, performThrew, actionSucceeded, execution,
                   requests, executions, report>>

\* run-survey.ts:206-214   page.goto, then the first extraction
Open ==
    /\ pc = "goto"
    /\ \/ /\ Throw
          /\ Caught(emitted, Len(steps))
          /\ UNCHANGED <<retries, initialState>>
       \/ /\ \E page \in Pages : initialState' = page
          /\ retries' = 0
          /\ pc' = "opening"
          /\ UNCHANGED <<emitted, status, message, state, decision, source, llm, attempt, performThrew,
                         actionSucceeded, execution>>
    /\ UNCHANGED <<service, run, stuck, steps, stagnantSteps, step, requests, executions, browser,
                   context, report>>

\* mutant: the retry budget is off by one
RetryLoopRunsOnceMore == ~isValidSurveySurface(initialState) /\ retries <= maxRetries

\* run-survey.ts:217   the condition of the retry loop
RetryLoopRuns == ~isValidSurveySurface(initialState) /\ retries < maxRetries

\* run-survey.ts:217-222   one more extraction, a second later
Retry ==
    /\ pc = "opening"
    /\ RetryLoopRuns
    /\ \/ /\ Throw
          /\ Caught(emitted \o <<Ev("log", 0, "retry")>>, Len(steps))
          /\ UNCHANGED <<retries, initialState>>
       \/ /\ \E page \in Pages : initialState' = page
          /\ retries' = retries + 1
          /\ emitted' = emitted \o <<Ev("log", 0, "retry")>>
          /\ UNCHANGED <<pc, status, message, state, decision, source, llm, attempt, performThrew,
                         actionSucceeded, execution>>
    /\ UNCHANGED <<service, run, stuck, steps, stagnantSteps, step, requests, executions, browser,
                   context, report>>

\* run-survey.ts:230-240   after the retry loop: blocked, or enter the step loop
Opened ==
    /\ pc = "opening"
    /\ ~RetryLoopRuns
    /\ IF ~isValidSurveySurface(initialState)
       THEN \E shotThrows \in (IF run.profile.captureScreenshots THEN BOOLEAN ELSE {FALSE}) :
              IF shotThrows
              THEN /\ Throw
                   /\ Caught(emitted \o <<Ev("log", 0, "initial-state")>>, Len(steps))
                   /\ UNCHANGED <<stagnantSteps, step, retries, initialState>>
              ELSE /\ status' = "blocked"
                   /\ message' = MsgNoSurface
                   /\ pc' = "cleanup"
                   /\ emitted' = emitted \o <<Ev("log", 0, "initial-state")>>
                   /\ UNCHANGED <<stagnantSteps, step, retries, initialState, state,
                                  decision, source, llm, attempt, performThrew, actionSucceeded,
                                  execution>>
       ELSE \* initialState and retries are not read again once the loop is entered
            /\ stagnantSteps' = 0
            /\ step' = 1
            /\ pc' = "loop"
            /\ retries' = 0
            /\ initialState' = NoState
            /\ emitted' = emitted \o <<Ev("log", 0, "initial-state")>>
            /\ UNCHANGED <<status, message, state, decision, source, llm, attempt, performThrew,
                           actionSucceeded, execution>>
    /\ UNCHANGED <<service, run, stuck, steps, requests, executions, browser, context, report>>

\* run-survey.ts:337-388   from a decision to the call of executeDecision; st is the
\* state of the iteration
Decided(d, src, st) ==
    /\ \E preShotThrows \in (IF run.profile.captureScreenshots \/ d.needs_screenshot
                             THEN BOOLEAN ELSE {FALSE}) :
         IF preShotThrows
         THEN /\ Throw
              /\ Caught((IF pc = "loop" THEN RequestEvents(step, st) ELSE emitted)
                        \o SubSeq(DecisionEvents(step, d, src), 1,
                                  Len(DecisionEvents(step, d, src)) - 1),
                        Len(steps))
              /\ UNCHANGED <<steps, executions>>
         ELSE LET outcome == DecisionOutcome(run.completeSurvey, step, d)
                  events == (IF pc = "loop" THEN RequestEvents(step, st) ELSE emitted)
                            \o DecisionEvents(step, d, src)
              IN  CASE outcome = "stop_before_completion" ->
                         /\ status' = "success"
                         /\ emitted' = events
                         /\ message' = MsgStopped
                         /\ pc' = "cleanup"
                         /\ state' = st /\ decision' = d /\ source' = src
                         /\ llm' = NoLlmCall /\ attempt' = 0 /\ performThrew' = FALSE /\ actionSucceeded' = FALSE
                         /\ execution' = NoExecution
                         /\ UNCHANGED <<steps, executions>>
                    [] outcome = "cannot_proceed" ->
                         \E shotThrows \in (IF ~run.profile.captureScreenshots
                                            THEN BOOLEAN ELSE {FALSE}) :
                           IF shotThrows
                           THEN Throw /\ Caught(events, Len(steps)) /\ UNCHANGED <<steps, executions>>
                           ELSE /\ status' = "blocked"
                                /\ message' = MsgCannotProceed
                                /\ emitted' = events
                                      \o (IF ~run.profile.captureScreenshots
                                          THEN <<Ev("artifact", step, "cannot-proceed")>>
                                          ELSE <<>>)
                                /\ steps' = Append(steps, StepResult(step, FALSE, FALSE, TRUE))
                                /\ pc' = "cleanup"
                                /\ state' = st /\ decision' = d /\ source' = src
                                /\ llm' = NoLlmCall /\ attempt' = 0 /\ performThrew' = FALSE
                                /\ actionSucceeded' = FALSE
                                /\ execution' = NoExecution
                                /\ UNCHANGED executions
                    [] outcome = "execute" ->
                         /\ pc' = "perform"
                         /\ emitted' = events
                         /\ state' = st /\ decision' = d /\ source' = src
                         /\ llm' = NoLlmCall /\ attempt' = 0 /\ performThrew' = FALSE /\ actionSucceeded' = FALSE
                         /\ execution' = NoExecution
                         /\ executions' = executions + 1
                         /\ UNCHANGED <<status, message, steps>>
    /\ UNCHANGED <<service, run, stuck, stagnantSteps, step, retries, initialState, browser, context, report>>

\* run-survey.ts:322-335   the catch around requestLlmDecision
Fallback(st) ==
    Decided(fallbackDecision(run.profile.runId, st, run.profile.strategy, run.profile.ruleset),
            "fallback", st)

\* run-survey.ts:242-321   the head of an iteration: extract, completion check,
\* external-domain check, then the decision request (client.ts:11-34)
Iterate ==
    /\ pc = "loop"
    /\ step <= maxSteps
    /\ \/ /\ Throw
          /\ Caught(<<>>, Len(steps))
          /\ UNCHANGED <<service, run, stuck, steps, stagnantSteps, step, retries, initialState, requests,
                         executions, browser, context, report>>
       \/ \E page \in Pages :
            IF isCompletionLikely(page) \/ ExitedToExternalDomain(page, run.surveyUrl, step)
            THEN /\ status' = "success"
                 /\ message' = IF isCompletionLikely(page) THEN MsgCompletionText
                               ELSE MsgExternal
                 /\ pc' = "cleanup"
                 /\ emitted' = HeadEvents(step)
                 /\ state' = page /\ decision' = NoDecision /\ source' = "none"
                 /\ llm' = NoLlmCall /\ attempt' = 0 /\ performThrew' = FALSE /\ actionSucceeded' = FALSE
                 /\ execution' = NoExecution
                 /\ UNCHANGED <<service, run, stuck, steps, stagnantSteps, step, retries, initialState,
                                requests, executions, browser, context, report>>
            ELSE /\ requests' = requests + 1
                 /\ IF ~run.profile.apiKey
                    THEN Fallback(page)
                    ELSE /\ pc' = "llm"
                         /\ emitted' = RequestEvents(step, page)
                         /\ llm' = LlmCall(IF UsesFetchTimeout(run.profile.provider)
                                           THEN "fetch" ELSE "sdk",
                                           DecisionTimeoutMs(run.profile.speedMode), FALSE)
                         /\ state' = page /\ decision' = NoDecision /\ source' = "none"
                         /\ attempt' = 0 /\ performThrew' = FALSE /\ actionSucceeded' = FALSE
                         /\ execution' = NoExecution
                         /\ UNCHANGED <<service, run, stuck, status, message, steps, stagnantSteps, step,
                                        retries, initialState, executions, browser,
                                        context, report>>

\* run-survey.ts:242   the loop condition fails
LoopExit ==
    /\ pc = "loop"
    /\ ~(step <= maxSteps)
    /\ pc' = "cleanup"
    /\ ClearIteration
    /\ UNCHANGED <<service, emitted, run, stuck, status, message, steps, stagnantSteps, step, retries, initialState,
                   requests, executions, browser, context, report>>

\* part_008:36 / anthropic.ts:36   fetch settles before the abort timer fires
LlmHeaders ==
    /\ pc = "llm"
    /\ llm.phase = "fetch"
    /\ \/ /\ llm' = [llm EXCEPT !.phase = "body"]
          /\ UNCHANGED <<service, emitted, run, stuck, pc, status, message, steps, stagnantSteps, step, retries,
                         initialState, state, decision, source, attempt, performThrew, actionSucceeded,
                         execution, executions, browser, context, report>>
       \/ Fallback(state)
    /\ UNCHANGED requests

\* part_008:64-76, groq.ts:11-33   the body (or the SDK call) settles: a schema-
\* valid decision, or an error status, empty content, bad JSON or a schema failure
LlmBody ==
    /\ pc = "llm"
    /\ llm.phase \in {"body", "sdk"}
    /\ \/ \E d \in LlmDecisions : Decided(d, "llm", state)
       \/ Fallback(state)
    /\ UNCHANGED requests

\* request.timeoutMs elapses: withTimeout aborts a pending fetch (part_008:33);
\* nothing else of the engine listens to that clock
LlmTimer ==
    /\ pc = "llm"
    /\ ~llm.expired
    /\ IF llm.phase = "fetch"
       THEN Fallback(state)
       ELSE /\ llm' = [llm EXCEPT !.expired = TRUE]
            /\ UNCHANGED <<service, emitted, run, stuck, pc, status, message, steps, stagnantSteps, step, retries,
                           initialState, state, decision, source, attempt, performThrew, actionSucceeded,
                           execution, executions, browser, context, report>>
    /\ UNCHANGED requests

\* part_004:194-208   one pass of the retry loop around perform()
Attempt ==
    /\ pc = "perform"
    /\ AttemptLoopRuns(attempt, actionSucceeded)
    /\ \E outcome \in PerformOutcomes(decision) :
         /\ actionSucceeded' = (outcome = "true")
         /\ attempt' = attempt + 1
         /\ performThrew' = (outcome = "throw")
         /\ pc' = IF AttemptLoopRuns(attempt + 1, outcome = "true")
                  THEN "perform" ELSE "waiting"
    /\ UNCHANGED <<service, emitted, run, stuck, status, message, steps, stagnantSteps, step, retries, initialState,
                   state, decision, source, llm, execution, requests, executions, browser,
                   context, report>>

\* run-survey.ts:391-474   the rest of the iteration once executeDecision returned
FinishStep(exec) ==
    LET progressed == StepProgressed(state, exec)
        stagnant == NextStagnantSteps(stagnantSteps, progressed)
        outcome == StepOutcome(decision, exec, progressed, stagnant, step, maxSteps)
        stepResult == StepResult(step, exec.actionSucceeded, progressed,
                                 Len(exec.assertionsFailed) > 0)
        events == emitted \o OutcomeEvents(step, exec)
        keep == /\ execution' = exec
                /\ attempt' = 0 /\ performThrew' = FALSE /\ actionSucceeded' = FALSE
                /\ UNCHANGED <<state, decision, source, llm>>
    IN  /\ steps' = Append(steps, stepResult)
        /\ stagnantSteps' = stagnant
        /\ stuck' = (/\ stuck
                     /\ stateFingerprint(exec.afterState) = stateFingerprint(state)
                     /\ Len(exec.assertionsFailed) > 0)
        /\ CASE outcome = "submitted" ->
                  /\ status' = "success" /\ message' = MsgSubmitted
                  /\ pc' = "cleanup" /\ keep /\ UNCHANGED step
                  /\ emitted' = events
             [] outcome = "complete" ->
                  /\ status' = "success" /\ message' = MsgComplete
                  /\ pc' = "cleanup" /\ keep /\ UNCHANGED step
                  /\ emitted' = events
             [] outcome = "stagnant" ->
                  \E shotThrows \in (IF ~run.profile.captureScreenshots
                                     THEN BOOLEAN ELSE {FALSE}) :
                    IF shotThrows
                    THEN Throw /\ Caught(events, Len(steps) + 1) /\ UNCHANGED step
                    ELSE /\ status' = "blocked" /\ message' = MsgStagnant
                         /\ pc' = "cleanup" /\ keep /\ UNCHANGED step
                         /\ emitted' = events
                               \o (IF ~run.profile.captureScreenshots
                                   THEN <<Ev("artifact", step, "stagnant")>> ELSE <<>>)
             [] outcome = "max_steps" ->
                  /\ status' = "blocked" /\ message' = MsgMaxSteps
                  /\ pc' = "loop" /\ keep /\ step' = step + 1
                  /\ emitted' = events
             [] outcome = "continue" ->
                  /\ pc' = "loop" /\ keep /\ step' = step + 1
                  /\ emitted' = events
                  /\ UNCHANGED <<status, message>>
        /\ UNCHANGED <<service, run, retries, initialState, requests, executions, browser, context,
                       report>>

\* part_004:101-121   one poll of waitForProgress: it returns on a changed, valid
\* state and otherwise sleeps and polls again
Poll ==
    /\ pc = "waiting"
    /\ \/ /\ Throw
          /\ Caught(emitted, Len(steps))
          /\ UNCHANGED <<service, run, stuck, steps, stagnantSteps, step, retries, initialState, requests,
                         executions, browser, context, report>>
       \/ \E polled \in Pages :
            IF PollShowsProgress(state, polled)
            THEN FinishStep(Execution(actionSucceeded, TRUE, polled, state, decision))
            ELSE UNCHANGED vars

\* part_004:101,123   the wait times out: one last extraction, progressed = false
WaitTimeout ==
    /\ pc = "waiting"
    /\ \/ /\ Throw
          /\ Caught(emitted, Len(steps))
          /\ UNCHANGED <<service, run, stuck, steps, stagnantSteps, step, retries, initialState, requests,
                         executions, browser, context, report>>
       \/ \E final \in Pages :
            FinishStep(Execution(actionSucceeded, FALSE, final, state, decision))

\* run-survey.ts:492-515   close the context and the browser, rename the video
Cleanup ==
    /\ pc = "cleanup"
    /\ \E outcome \in {"ok", "context_close_throws", "browser_close_throws"}
                      \cup (IF run.profile.recordVideo THEN {"video_throws"} ELSE {}) :
         /\ context' = IF outcome = "context_close_throws" THEN "open" ELSE "closed"
         /\ browser' = IF outcome \in {"ok", "video_throws"} THEN "closed" ELSE "open"
         /\ emitted' = IF outcome = "ok" THEN emitted
                       ELSE emitted \o <<Ev("log", 0, "cleanup-failed")>>
    /\ pc' = "report"
    /\ ClearIteration
    /\ UNCHANGED <<service, run, stuck, status, message, steps, stagnantSteps, step, retries, initialState,
                   requests, executions, report>>

\* mutant: the report is built and written from inside the step loop
FinalReportInsideLoop ==
    /\ pc \in {"loop", "report"}
    /\ report' = [status |-> status, message |-> message, steps |-> steps]
    /\ pc' = IF pc = "loop" THEN "loop" ELSE "done"
    /\ UNCHANGED <<service, emitted, run, stuck, status, message, steps, stagnantSteps, step, retries, initialState,
                   state, decision, source, llm, attempt, performThrew, actionSucceeded,
                   execution, requests, executions, browser, context>>

\* run-survey.ts:141-184, 517-524   finalReport: build the report and write it
FinalReport ==
    /\ pc = "report"
    /\ \/ /\ pc' = "rejected"
          /\ UNCHANGED <<report, emitted>>
       \/ /\ report' = [status |-> status, message |-> message, steps |-> steps]
          /\ pc' = "done"
          /\ emitted' = emitted \o <<Ev("log", 0, "summary"), Ev("status", 0, status)>>
    /\ UNCHANGED <<service, run, stuck, status, message, steps, stagnantSteps, step, retries, initialState,
                   state, decision, source, llm, attempt, performThrew, actionSucceeded, execution,
                   requests, executions, browser, context>>

Next ==
    \/ Launch
    \/ Open
    \/ Retry
    \/ Opened
    \/ Iterate
    \/ LoopExit
    \/ LlmHeaders
    \/ LlmBody
    \/ LlmTimer
    \/ Attempt
    \/ Poll
    \/ WaitTimeout
    \/ Cleanup
    \/ FinalReport

Spec == Init /\ [][Next]_vars

\* every awaited call eventually returns or throws, and waitForProgress's clock
\* (part_004:101) advances: the run keeps taking steps while one is possible
FairSpec == Spec /\ WF_vars(Next)

-----------------------------------------------------------------------------
\* The runner service: RunController (run-controller.ts), the route that starts
\* runs (server.ts) and the UI's batch of runs (App.tsx)

\* runs started by clients other than the UI
MaxPosts == 1

\* survey URLs entered in the UI
MaxUrls == 2

\* the UI's "Runs per URL"
MaxIterations == 2

\* run-survey.ts:190, 319-474, 479   the statuses finalReport can be given
ReportStatuses == {"success", "blocked", "error"}

\* run-controller.ts:129
MsgUnknownRunError == "Unknown run error."

\* Map.prototype.set
MapSet(map, key, value) ==
    [k \in DOMAIN map \cup {key} |-> IF k = key THEN value ELSE map[k]]

\* { ...run, ...patch }
Spread(rec, patch) ==
    [f \in DOMAIN rec \cup DOMAIN patch |-> IF f \in DOMAIN patch THEN patch[f] ELSE rec[f]]

\* run-controller.ts:54-61   the record startRun stores; timestamps are left out,
\* "" stands for a null error
InitialRunState(id) ==
    [runId |-> id, status |-> "queued", report |-> NoReport, error |-> ""]

\* variant of patchRun that rewrites every entry of the run table
patchRunAll(id, patch) ==
    [k \in DOMAIN runs |-> Spread(runs[k], patch)]

\* run-controller.ts:140-151   the run table after patchRun(runId, patch)
patchRun(id, patch) ==
    IF id \notin DOMAIN runs THEN runs ELSE MapSet(runs, id, Spread(runs[id], patch))

\* variant of ErrorPatch that puts the run back in the queue
ErrorPatchRequeue(msg) == [status |-> "queued", error |-> msg]

\* run-controller.ts:130-133
ErrorPatch(msg) == [status |-> "error", error |-> msg]

\* variant of ReportPatch that stores the report's status without the report
ReportPatchStatusOnly(rep) == [status |-> rep.status, error |-> ""]

\* run-controller.ts:123-127   the patch applied when runSurvey returned its report
ReportPatch(rep) == [status |-> rep.status, report |-> rep, error |-> ""]

\* variant of Envelope that carries the id of the run started last
EnvelopeOfLatestRun(task, event) == [runId |-> tasks[Len(tasks)].runId, event |-> event]

\* run-controller.ts:113   { runId, event }
Envelope(task, event) == [runId |-> task.runId, event |-> event]

\* run-controller.ts:50-66   startRun up to its await of mkdir: a fresh id, the
\* queued record stored; input is the runId of the request's payload (0 if absent),
\* issued the number of UUIDs generated before the call
startRun(input, issued) ==
    /\ uuids' = issued + 1
    /\ runs' = MapSet(runs, issued + 1, InitialRunState(issued + 1))
    /\ tasks' = Append(tasks, [pc |-> "mkdir", runId |-> issued + 1, input |-> input,
                               engine |-> 0])
    /\ UNCHANGED published

\* server.ts:85-97   POST /api/runs from a client other than the UI modelled here,
\* with a valid payload and an API key
PostRun ==
    /\ Cardinality({t \in DOMAIN tasks : tasks[t].input = 0}) < MaxPosts
    /\ startRun(0, uuids)
    /\ UNCHANGED <<engineVars, appVars>>

\* run-controller.ts:66-69   mkdir returns and the detached task marks the run
\* running, or mkdir throws and startRun rejects with the run left queued
Mkdir(t) ==
    /\ tasks[t].pc = "mkdir"
    /\ \E ok \in BOOLEAN :
          IF ok
          THEN /\ runs' = patchRun(tasks[t].runId, [status |-> "running"])
               /\ tasks' = [tasks EXCEPT ![t].pc = "sheet"]
          ELSE /\ tasks' = [tasks EXCEPT ![t].pc = "rejected"]
               /\ UNCHANGED runs
    /\ UNCHANGED <<engineVars, published, uuids, appVars>>

\* run-controller.ts:72-78, 128-134   resolveSheetData returns and runSurvey is called
\* with the task's runId, or it throws and the run is marked error
ResolveSheet(t) ==
    /\ tasks[t].pc = "sheet"
    /\ \E ok \in BOOLEAN :
          IF ok
          THEN /\ tasks' = [tasks EXCEPT ![t].pc = "survey", ![t].engine = tasks[t].runId]
               /\ UNCHANGED runs
          ELSE /\ runs' = patchRun(tasks[t].runId, ErrorPatch(MsgException))
               /\ tasks' = [tasks EXCEPT ![t].pc = "end"]
    /\ UNCHANGED <<engineVars, published, uuids, appVars>>

\* run-controller.ts:112-114   the engine of task t emits an event; origin is the
\* runId the engine was given
OnEvent(t) ==
    /\ tasks[t].pc = "survey"
    /\ published' = published \cup {Envelope(tasks[t], [origin |-> tasks[t].engine])}
    /\ UNCHANGED <<engineVars, runs, tasks, uuids, appVars>>

\* run-controller.ts:77, 123-127   runSurvey returns its report
SurveyReturns(t) ==
    /\ tasks[t].pc = "survey"
    /\ \E st \in ReportStatuses :
          runs' = patchRun(tasks[t].runId,
                           ReportPatch([runId |-> tasks[t].engine, status |-> st]))
    /\ tasks' = [tasks EXCEPT ![t].pc = "end"]
    /\ UNCHANGED <<engineVars, published, uuids, appVars>>

\* run-controller.ts:128-134   runSurvey rejects
SurveyRejects(t) ==
    /\ tasks[t].pc = "survey"
    /\ \E msg \in {MsgException, MsgUnknownRunError} :
          runs' = patchRun(tasks[t].runId, ErrorPatch(msg))
    /\ tasks' = [tasks EXCEPT ![t].pc = "end"]
    /\ UNCHANGED <<engineVars, published, uuids, appVars>>

\* App.tsx:244-254   the batch queue: one payload per URL and iteration, each with a
\* runId generated in the browser; issued is the number of UUIDs generated before
BatchQueue(urls, iterations, issued) ==
    [i \in 1..(urls * iterations) |->
        [runId |-> issued + i, surveyUrl |-> ((i - 1) \div iterations) + 1]]

\* App.tsx:222-290   onRun with urls survey URLs and "Runs per URL" iterations, up to
\* its await of api.startRun; the request reaches POST /api/runs (server.ts:85-97),
\* which either answers 400 or calls startRun with the payload
OnRun ==
    /\ batch = <<>>
    /\ \E urls \in 1..MaxUrls, iterations \in 1..MaxIterations, accepted \in BOOLEAN :
          LET queue == BatchQueue(urls, iterations, uuids)
              firstRun == queue[1]
          IN  /\ batch' = queue
              /\ batchResults' = <<>>
              /\ isBatchMode' = (Len(queue) > 1)
              /\ batchQueue' = Tail(queue)
              /\ processingRunId' = firstRun.runId
              /\ runState' = NoRunState
              /\ IF accepted
                 THEN /\ startRun(firstRun.runId, uuids + Len(queue))
                      /\ pending' = pending \cup {[kind |-> "onRun", task |-> Len(tasks) + 1]}
                 ELSE /\ uuids' = uuids + Len(queue)
                      /\ pending' = pending \cup {[kind |-> "onRun", task |-> 0]}
                      /\ UNCHANGED controllerVars
    /\ UNCHANGED <<engineVars, runId, isRunning>>

\* App.tsx:293-337   the Batch Processor Effect, run with the state of the render
\* that follows setRunState(next)
BatchProcessor(next) ==
    IF /\ isBatchMode /\ processingRunId /= 0 /\ next /= NoRunState
       /\ next.runId = processingRunId
       /\ next.status \in {"success", "blocked", "error"}
    THEN /\ batchResults' = Append(batchResults, [id |-> next.runId, status |-> next.status])
         /\ processingRunId' = 0
         /\ IF Len(batchQueue) > 0
            THEN /\ batchQueue' = Tail(batchQueue)
                 /\ pending' = pending \cup {[kind |-> "timer", nextRun |-> batchQueue[1]]}
                 /\ UNCHANGED isBatchMode
                 /\ isRunning' = FALSE
            ELSE /\ isBatchMode' = FALSE
                 /\ isRunning' = FALSE
                 /\ UNCHANGED <<batchQueue, pending>>
    ELSE /\ isRunning' = (isRunning /\ next.status \notin {"success", "blocked", "error"})
         /\ UNCHANGED <<batchResults, processingRunId, batchQueue, pending, isBatchMode>>

\* App.tsx:113-129   the polling timer: getRun(runId) answers with the run's record,
\* which becomes runState, and isRunning is cleared if the run has ended; the render
\* that follows runs the Batch Processor Effect
PollRun ==
    /\ runId /= 0 /\ runId \in DOMAIN runs
    /\ runState' = runs[runId]
    /\ BatchProcessor(runs[runId])
    /\ UNCHANGED <<engineVars, controllerVars, uuids, runId, batch>>

\* a callback of the UI runs: the rest of onRun once api.startRun has settled
\* (App.tsx:281-289), the timer of the Batch Processor Effect (App.tsx:315-328), or
\* the then-callback of its api.startRun (App.tsx:325-328)
Resume ==
    \E c \in pending :
        /\ CASE c.kind = "onRun" ->
                  /\ c.task /= 0 => tasks[c.task].pc /= "mkdir"
                  /\ IF c.task /= 0 /\ tasks[c.task].pc /= "rejected"
                     THEN runId' = tasks[c.task].runId /\ isRunning' = TRUE
                     ELSE isRunning' = FALSE /\ UNCHANGED runId
                  /\ pending' = pending \ {c}
                  /\ UNCHANGED <<controllerVars, uuids, processingRunId, runState>>
             [] c.kind = "timer" ->
                  /\ processingRunId' = c.nextRun.runId
                  /\ runState' = NoRunState
                  /\ \E accepted \in BOOLEAN :
                        IF accepted
                        THEN /\ startRun(c.nextRun.runId, uuids)
                             /\ pending' = (pending \ {c})
                                           \cup {[kind |-> "then", task |-> Len(tasks) + 1]}
                        ELSE /\ pending' = pending \ {c}
                             /\ UNCHANGED <<controllerVars, uuids>>
                  /\ UNCHANGED <<runId, isRunning>>
             [] c.kind = "then" ->
                  /\ tasks[c.task].pc /= "mkdir"
                  /\ IF tasks[c.task].pc /= "rejected"
                     THEN runId' = tasks[c.task].runId
                     ELSE UNCHANGED runId
                  /\ pending' = pending \ {c}
                  /\ UNCHANGED <<controllerVars, uuids, processingRunId, runState, isRunning>>
        /\ UNCHANGED <<engineVars, isBatchMode, batchQueue, batchResults, batch>>

\* the engine as runSurvey finds it, for the specifications of the service
EngineIdle ==
    /\ run = CHOOSE r \in RunInputs : TRUE
    /\ pc = "start"
    /\ status = "success"
    /\ message = MsgInitial
    /\ steps = <<>>
    /\ stagnantSteps = 0
    /\ step = 0
    /\ retries = 0
    /\ initialState = NoState
    /\ state = NoState
    /\ decision = NoDecision
    /\ source = "none"
    /\ llm = NoLlmCall
    /\ attempt = 0
    /\ performThrew = FALSE
    /\ emitted = <<>>
    /\ actionSucceeded = FALSE
    /\ execution = NoExecution
    /\ stuck = TRUE
    /\ requests = 0
    /\ executions = 0
    /\ browser = "none"
    /\ context = "none"
    /\ report = NoReport

\* nothing started yet
ServiceIdle == NoFunction /\ ServiceInit /\ EngineIdle

ServiceNext ==
    \/ PostRun
    \/ \E t \in DOMAIN tasks : Mkdir(t)
    \/ \E t \in DOMAIN tasks : ResolveSheet(t)
    \/ \E t \in DOMAIN tasks : OnEvent(t)
    \/ \E t \in DOMAIN tasks : SurveyReturns(t)
    \/ \E t \in DOMAIN tasks : SurveyRejects(t)
    \/ OnRun
    \/ Resume
    \/ PollRun

\* the runner service with its clients; each run's engine is seen through the events
\* it emits and the report it returns
ServiceSpec == ServiceIdle /\ [][ServiceNext]_vars

\* every callback that can run eventually runs
FairServiceSpec == ServiceSpec /\ WF_vars(ServiceNext)

-----------------------------------------------------------------------------
\* The pure functions, called on arguments drawn from bounded sets

\* options of a question
MaxOptions == 11

\* the largest multiSelect.n configured
MaxN == 11

LabelPool == <<"A", "B", "C", "D", "E", "F", "G", "H", "I", "J", "K", "L", "M">>

\* the first k labels as options; when sel, the first is selected
Options(k, sel) == [i \in 1..k |-> Opt(LabelPool[i], sel /\ i = 1)]

\* the questions asked of the strategy engine
StrategyStates ==
    {QuestionState(q, <<>>, it, Options(k, FALSE), <<>>, <<"Next">>, NoProgress, k,
                   Url(SurveyHost)) :
        q \in {<<"pick", "one">>, <<"questions", "to", "complete">>},
        it \in {"single_select", "multi_select"},
        k \in 0..MaxOptions}

\* RulesetConfig (part_004:260-267) values
Ruleset(single, multi) == Def([singleSelect |-> single, multiSelect |-> multi, text |-> Undefined])

Rulesets ==
    {Ruleset(single, Undefined) : single \in {Undefined, Def("first"), Def("last"), Def("random")}}
    \cup {Ruleset(Undefined, Def([mode |-> mode, n |-> n])) :
             mode \in {"first_n", "all", "random_n"},
             n \in {Undefined} \cup {Def(i) : i \in 0..MaxN}}

\* the (strategy, ruleset) pairs a run can be configured with
Strategies ==
    {<<strategy, Undefined>> : strategy \in {"first", "last", "random", "ruleset"}}
    \cup {<<"ruleset", ruleset>> : ruleset \in Rulesets}

SelectionArgs(st, strat, id) ==
    [state |-> st, strategy |-> strat[1], ruleset |-> strat[2], runId |-> id]

\* the same question as the extractor could report it from another frame at another
\* moment: other selected flags, support text, buttons, input count and URL
Elsewhere(st) ==
    [st EXCEPT !.options = [i \in 1..Len(st.options) |->
                               Opt(st.options[i].label, ~st.options[i].selected)],
               !.supportText = <<<<"submitted">>>>,
               !.navigationButtons = <<>>,
               !.visibleInputCount = 0,
               !.url = Url(ExternalHost)]

\* two calls of deterministicSelection: the second with the same arguments, or with a
\* state that has the same question, option labels and input type
SelectionCalls ==
    {[fn |-> "deterministicSelection",
      first |-> SelectionArgs(st, strat, id),
      second |-> SelectionArgs(IF same THEN st ELSE Elsewhere(st), strat, id)] :
        st \in StrategyStates, strat \in Strategies, id \in {"r1", "r2"}, same \in BOOLEAN}

\* the arguments of the next call
NextArgs == IF Len(returned) = 0 THEN call.first ELSE call.second

\* part_004:411-459   deterministicSelection is called
Select ==
    /\ call.fn = "deterministicSelection"
    /\ Len(returned) < 2
    /\ returned' = Append(returned,
                          deterministicSelection(NextArgs.state, NextArgs.strategy,
                                                 NextArgs.ruleset, NextArgs.runId))
    /\ entropy' \in 0..1
    /\ UNCHANGED <<call, runVars, controllerVars, uuids, appVars>>

\* the text questions asked of chooseTextByRuleset
TextStates ==
    {QuestionState(q, sup, "text", <<>>, <<>>, <<"Next">>, NoProgress, 1, Url(SurveyHost)) :
        q \in {<<"your", "Email">>, <<"pick", "one">>},
        sup \in {<<>>, <<<<"Email", "required">>>>, <<<<"pick">>, <<"one">>>>}}

\* Object.entries of the text.byKeyword maps configured, in insertion order
KeywordMaps ==
    {<<>>,
     <<[key |-> <<"email">>, value |-> <<"a@b.com">>]>>,
     <<[key |-> <<"one">>, value |-> <<"1">>], [key |-> <<"Email">>, value |-> <<"a@b.com">>]>>,
     <<[key |-> <<"Email">>, value |-> <<"a@b.com">>], [key |-> <<"your">>, value |-> <<"me">>]>>,
     <<[key |-> <<"pick", "one">>, value |-> <<"1">>]>>}

TextRulesets ==
    {Undefined, Def([singleSelect |-> Undefined, multiSelect |-> Undefined, text |-> Undefined])}
    \cup {Def([singleSelect |-> Undefined, multiSelect |-> Undefined,
               text |-> Def([default |-> d, byKeyword |-> m])]) :
             d \in {Undefined, Def(<<"N/A">>)}, m \in KeywordMaps}

\* two calls of chooseTextByRuleset with the same arguments
TextCalls ==
    {[fn |-> "chooseTextByRuleset",
      first |-> [state |-> st, ruleset |-> rs],
      second |-> [state |-> st, ruleset |-> rs]] : st \in TextStates, rs \in TextRulesets}

\* part_004:398-409   chooseTextByRuleset is called
ChooseText ==
    /\ call.fn = "chooseTextByRuleset"
    /\ Len(returned) < 2
    /\ returned' = Append(returned, chooseTextByRuleset(NextArgs.state, NextArgs.ruleset))
    /\ entropy' \in 0..1
    /\ UNCHANGED <<call, runVars, controllerVars, uuids, appVars>>

\* the states fingerprinted: two question texts, progress absent, empty or shown, up to
\* two options with or without a selected one, a text field empty or filled
FingerprintStates ==
    {QuestionState(q, <<>>, "single_select", Options(k, sel), filled, <<"Next">>,
                   progress, 2, Url(SurveyHost)) :
        q \in {<<"pick", "one">>, <<"Thank", "You">>},
        progress \in {NoProgress, ProgressOf(<<>>), ProgressOf(<<"50%">>)},
        k \in 0..2, sel \in BOOLEAN, filled \in {<<>>, <<"x">>}}

\* the state with the fields the fingerprint does not render replaced
Extracted(st, url, support, inputType, buttons, count) ==
    [st EXCEPT !.url = url, !.supportText = support, !.inputType = inputType,
               !.navigationButtons = buttons, !.visibleInputCount = count]

\* a state as another extraction could report it: any of url, supportText, inputType,
\* navigationButtons and visibleInputCount replaced, or the selected flags flipped
Reextractions(st) ==
    {Extracted(st, url, support, inputType, buttons, count) :
        url \in {st.url, Url(ExternalHost)},
        support \in {st.supportText, <<<<"submitted">>>>},
        inputType \in {st.inputType, "text"},
        buttons \in {st.navigationButtons, <<>>},
        count \in {st.visibleInputCount, 0}}
    \cup {Elsewhere(st)}

\* two calls of stateFingerprint, the second on a re-extraction of the first's state
FingerprintCalls ==
    UNION {{[fn |-> "stateFingerprint", first |-> [state |-> st], second |-> [state |-> re]] :
               re \in Reextractions(st)} : st \in FingerprintStates}

\* part_003:321-324   stateFingerprint is called
Fingerprint ==
    /\ call.fn = "stateFingerprint"
    /\ Len(returned) < 2
    /\ returned' = Append(returned, stateFingerprint(NextArgs.state))
    /\ entropy' \in 0..1
    /\ UNCHANGED <<call, runVars, controllerVars, uuids, appVars>>

\* the most iterations of the polling loop before the timeout
MaxPolls == 3

\* what the page can show while waitForProgress polls: the question unchanged, the
\* question with an option selected, a page with no input and no button, another question
PolledPages == {PageSingle, PageSingleSel, PageThanks, PageText}

SeqsUpTo(S, n) == UNION {[1..k -> S] : k \in 0..n}

\* two calls of waitForProgress on the same before-state and the same page history, the
\* second with a timeout that leaves room for one poll less
WaitCalls ==
    {[fn |-> "waitForProgress",
      first |-> [before |-> before, polls |-> polls, final |-> final],
      second |-> [before |-> before, polls |-> SubSeq(polls, 1, Len(polls) - 1),
                  final |-> final]] :
        before \in {PageSingle, PageThanks}, polls \in SeqsUpTo(PolledPages, MaxPolls),
        final \in PolledPages}

\* part_004:92-124   waitForProgress is called
Wait ==
    /\ call.fn = "waitForProgress"
    /\ Len(returned) < 2
    /\ returned' = Append(returned,
                          waitForProgress(NextArgs.before, NextArgs.polls, NextArgs.final))
    /\ entropy' \in 0..1
    /\ UNCHANGED <<call, runVars, controllerVars, uuids, appVars>>

\* a text question with a progress bar labelled "1|2"
PageBar ==
    QuestionState(<<"Q">>, <<>>, "text", <<>>, <<>>, <<"Next">>,
                  ProgressOf(<<"1|2">>), 1, Url(SurveyHost))
\* the question "Q|1" with a progress bar labelled "2"
PageBarMoved ==
    QuestionState(<<"Q|1">>, <<>>, "text", <<>>, <<>>, <<"Next">>,
                  ProgressOf(<<"2">>), 1, Url(SurveyHost))

\* what the page can show after an action
PagesAfterAction ==
    {PageSingle, PageSingleSel, PageText, PageThanks, PageBar, PageBarMoved}

\* decisions with and without declared assertions
DecisionsTaken ==
    {Decision("select_single", <<"A">>, <<>>, 90, FALSE, <<<<"pick">>, <<"zzz">>>>),
     Decision("select_single", <<"B">>, <<>>, 90, FALSE, <<>>),
     Decision("type_text", <<>>, <<"hello">>, 90, FALSE, <<<<"Q">>>>),
     Decision("click_next", <<>>, <<>>, 90, FALSE, <<<<"zzz">>, <<"one">>>>)}

\* two calls on the same before-state, decision and page history, the second with the
\* stagnation counter the first left
AfterActionCalls ==
    UNION {{[fn |-> "executeDecision",
             first |-> [beforeState |-> before, decision |-> taken,
                        actionSucceeded |-> succeeded, polls |-> polls, final |-> final,
                        stagnantSteps |-> 1],
             second |-> [beforeState |-> before, decision |-> taken,
                         actionSucceeded |-> succeeded, polls |-> polls, final |-> final,
                         stagnantSteps |->
                             StepAfterAction(before, taken, succeeded, polls, final,
                                             1).stagnantSteps]] :
                before \in {PageSingle, PageText, PageBar},
                taken \in DecisionsTaken,
                succeeded \in BOOLEAN,
                final \in PagesAfterAction} :
           polls \in SeqsUpTo(PagesAfterAction, 1)}

\* part_004:210-252, run-survey.ts:397-415   executeDecision waits and returns, and the
\* engine records the step
AfterAction ==
    /\ call.fn = "executeDecision"
    /\ Len(returned) < 2
    /\ returned' = Append(returned,
                          StepAfterAction(NextArgs.beforeState, NextArgs.decision,
                                          NextArgs.actionSucceeded, NextArgs.polls,
                                          NextArgs.final, NextArgs.stagnantSteps))
    /\ entropy' \in 0..1
    /\ UNCHANGED <<call, runVars, controllerVars, uuids, appVars>>

\* the most radios, and the most buttons, of a page
MaxElements == 2

Element(label, selected, readable) ==
    [label |-> label, selected |-> selected, readable |-> readable]

\* the radios a page can hold: A and B, selected or not, and an A that cannot be read
Radios ==
    {Element("A", FALSE, TRUE), Element("A", TRUE, TRUE), Element("B", FALSE, TRUE),
     Element("A", TRUE, FALSE)}

\* the checkboxes: A selected or not, a selected B, one without a label
Checkboxes ==
    {Element("A", FALSE, TRUE), Element("A", TRUE, TRUE), Element("B", TRUE, TRUE),
     Element("", TRUE, TRUE)}

\* the buttons: A and B pressed, and a navigation button
Buttons ==
    {Element("A", TRUE, TRUE), Element("B", TRUE, TRUE), Element("Next", TRUE, TRUE)}

\* two extractions of the same page
ExtractCalls ==
    {[fn |-> "extractOptions",
      first |-> [radios |-> radios, checkboxes |-> checkboxes, buttons |-> buttons],
      second |-> [radios |-> radios, checkboxes |-> checkboxes, buttons |-> buttons]] :
        radios \in SeqsUpTo(Radios, MaxElements),
        checkboxes \in SeqsUpTo(Checkboxes, 1),
        buttons \in SeqsUpTo(Buttons, MaxElements)}

\* part_003:222-225   the options of a context are read
Extract ==
    /\ call.fn = "extractOptions"
    /\ Len(returned) < 2
    /\ returned' = Append(returned,
                          extractOptions(NextArgs.radios, NextArgs.checkboxes,
                                         NextArgs.buttons))
    /\ entropy' \in 0..1
    /\ UNCHANGED <<call, runVars, controllerVars, uuids, appVars>>

\* the most frames of a page
MaxFrames == 3

\* the frames a page can hold: the main frame (showing a question by now), a frame that
\* fails, a frame with no surface, and two frames with a question
Frames ==
    {Frame(TRUE, PageSingle), Frame(FALSE, Threw), Frame(FALSE, PageThanks),
     Frame(FALSE, PageText), Frame(FALSE, PageSingleSel)}

\* two extractions from the same page
PageCalls ==
    {[fn |-> "extractQuestionState",
      first |-> [primary |-> primary, frames |-> frames],
      second |-> [primary |-> primary, frames |-> frames]] :
        primary \in {PageSingle, PageThanks, PageBlank, Threw},
        frames \in SeqsUpTo(Frames, MaxFrames)}

\* part_003:277-311   extractQuestionState is called
ExtractState ==
    /\ call.fn = "extractQuestionState"
    /\ Len(returned) < 2
    /\ returned' = Append(returned, extractQuestionState(NextArgs.primary, NextArgs.frames))
    /\ entropy' \in 0..1
    /\ UNCHANGED <<call, runVars, controllerVars, uuids, appVars>>

\* the options the extractor can report with an input type (part_003:238-252): yes_no
\* only with the two labels yes and no, the other types with any number of options
FallbackOptions(it) ==
    IF it = "yes_no" THEN {<<Opt("Yes", FALSE), Opt("No", FALSE)>>}
    ELSE {Options(k, FALSE) : k \in 0..2}

\* the states handed to fallbackDecision: every input type, no option to two, no
\* navigation button, one that continues, one that submits, or both kinds
FallbackStates ==
    UNION {{QuestionState(<<"pick", "one">>, <<>>, it, opts, <<>>, nav, NoProgress,
                          Len(opts), Url(SurveyHost)) :
               opts \in FallbackOptions(it),
               nav \in {<<>>, <<"Next">>, <<"Submit">>, <<"Back", "Complete">>}} :
           it \in {"text", "single_select", "yes_no", "multi_select", "unknown"}}

\* the same question once it has been answered: the first option selected, the text
\* field filled
Answered(st) ==
    [st EXCEPT !.options = [i \in 1..Len(st.options) |->
                               Opt(st.options[i].label, i = 1)],
               !.filledValue = IF st.inputType = "text" THEN <<"hello">> ELSE <<>>]

FallbackStrategies ==
    {<<strategy, Undefined>> : strategy \in {"first", "last", "random", "ruleset"}}
    \cup {<<"ruleset", Ruleset(Def("last"), Undefined)>>,
          <<"ruleset", Ruleset(Undefined, Def([mode |-> "all", n |-> Undefined]))>>}

\* two calls of fallbackDecision: on a question and on the same question answered
FallbackCalls ==
    {[fn |-> "fallbackDecision",
      first |-> SelectionArgs(st, strat, "r1"),
      second |-> SelectionArgs(Answered(st), strat, "r1")] :
        st \in FallbackStates, strat \in FallbackStrategies}

\* run-survey.ts:329-334   fallbackDecision is called
Fall ==
    /\ call.fn = "fallbackDecision"
    /\ Len(returned) < 2
    /\ returned' = Append(returned,
                          fallbackDecision(NextArgs.runId, NextArgs.state, NextArgs.strategy,
                                           NextArgs.ruleset))
    /\ entropy' \in 0..1
    /\ UNCHANGED <<call, runVars, controllerVars, uuids, appVars>>

FunctionCalls ==
    SelectionCalls \cup TextCalls \cup FingerprintCalls \cup WaitCalls \cup AfterActionCalls
    \cup ExtractCalls
    \cup PageCalls
    \cup FallbackCalls

FunctionInit ==
    /\ ServiceInit
    /\ EngineIdle
    /\ call \in FunctionCalls
    /\ returned = <<>>
    /\ entropy \in 0..1

FunctionNext ==
    \/ Select
    \/ ChooseText
    \/ Fingerprint
    \/ Wait
    \/ AfterAction
    \/ Extract
    \/ ExtractState
    \/ Fall

\* each pure function called twice on arguments drawn from the sets above
FunctionSpec == FunctionInit /\ [][FunctionNext]_vars



(***************************************************************************)
(* Properties of the step engine.                                          *)
(***************************************************************************)
\* the recorded steps that did not progress
NonProgressed(recorded) == {i \in 1..Len(recorded) : ~recorded[i].progressed}

C2_FailedAssertionForcesNoProgress ==
    [][(/\ pc = "waiting"
        /\ execution' /= NoExecution
        /\ Len(execution'.assertionsFailed) > 0)
          => /\ Len(steps') = Len(steps) + 1
             /\ Last(steps').step = step
             /\ Last(steps').progressed = FALSE
             /\ stagnantSteps' = stagnantSteps + 1]_vars

C2_Witness ==
    /\ execution /= NoExecution
    /\ Len(execution.assertionsFailed) > 0
    /\ execution.progressed
    /\ stateFingerprint(execution.afterState) /= stateFingerprint(state)
    /\ ~Last(steps).progressed

\* C3: no run ends with status success at a step whose execution reported a failed
\* assertion
C3_NoSuccessOnFailedAssertion ==
    ~(/\ pc = "cleanup"
      /\ execution /= NoExecution
      /\ Len(execution.assertionsFailed) > 0
      /\ status = "success")

\* C4: after an executed click_submit step the run ends with success exactly when the
\* after-state shows completion text or the step was recorded as not progressed;
\* otherwise the loop goes on to its remaining checks and the next iteration
C4_SubmitRule ==
    (execution /= NoExecution /\ decision.action = "click_submit") =>
        LET ended == pc = "cleanup" /\ status = "success"
        IN  /\ ended <=> (\/ isCompletionLikely(execution.afterState)
                          \/ ~Last(steps).progressed)
            /\ ended => message = MsgSubmitted
            /\ ~ended => (pc = "loop" /\ step = Last(steps).step + 1)

C4_Witness ==
    /\ execution /= NoExecution /\ decision.action = "click_submit"
    /\ pc = "cleanup" /\ status = "success"
    /\ ~isCompletionLikely(execution.afterState)
    /\ ~Last(steps).progressed

\* words that occur in some completion phrase of isCompletionLikely
PhraseWords == {"thank", "thanks", "submitted", "successfully", "start", "completed",
                "finished"}
HasNoPhraseWord(st) ==
    \A w \in PhraseWords :
        ~SeqIncludes(ToLowerCase(st.questionText \o JoinTexts(st.supportText)), w)

\* C5: a fresh state with completion text ends the run with success before a decision
\* is requested or an action executed for that step and without a StepResult for it;
\* a state with no inputs and no completion phrase is never treated as complete
C5_CompletionBeforeDecision ==
    /\ (pc \in {"llm", "perform", "waiting"}) => ~isCompletionLikely(state)
    /\ (pc = "cleanup" /\ state /= NoState /\ decision = NoDecision
           /\ isCompletionLikely(state))
         => /\ status = "success" /\ message = MsgCompletionText
            /\ requests = step - 1
            /\ executions = step - 1
            /\ Len(steps) = step - 1
    /\ (pc = "cleanup" /\ message = MsgCompletionText /\ state /= NoState)
         => ~(state.visibleInputCount = 0 /\ HasNoPhraseWord(state))

C5_Witness ==
    /\ pc = "cleanup" /\ message = MsgCompletionText
    /\ state /= NoState /\ state.visibleInputCount = 0
    /\ step = 2 /\ Len(steps) = 1

DepartedHost(st) ==
    /\ st.url.parseable /\ run.surveyUrl.parseable
    /\ st.url.hostname /= run.surveyUrl.hostname
    /\ ~isKnownSurveyProvider(st.url.hostname)

C8_FallbackAlwaysExecutes ==
    source = "fallback" =>
        /\ decision.confidence <= FallbackConfidence
        /\ status /= "error"
        /\ pc = "cleanup" =>
              /\ execution /= NoExecution
              /\ Last(steps).step = step
              /\ Last(steps).actionSucceeded = execution.actionSucceeded

\* C8 as amended: after a failure of requestLlmDecision the step uses
\* fallbackDecision of the current state, of confidence at most 0.35, and the run is
\* not in error; the decision is then handled like any other: it is executed and the
\* step records the executor's actionSucceeded, unless it is cannot_proceed at the
\* check (blocked, recorded with actionSucceeded = false, not executed) or the run
\* stops before completion (completeSurvey false after the first step: success,
\* nothing executed or recorded)
C8_FallbackOnDecisionFailure ==
    source = "fallback" =>
        /\ decision = fallbackDecision(run.profile.runId, state, run.profile.strategy,
                                       run.profile.ruleset)
        /\ decision.confidence <= FallbackConfidence
        /\ status /= "error"
        /\ pc \in {"perform", "waiting", "loop", "cleanup"}
        /\ (pc \in {"loop", "cleanup"} /\ execution = NoExecution) =>
              \/ /\ decision.action = "cannot_proceed"
                 /\ run.completeSurvey \/ step = 1
                 /\ pc = "cleanup" /\ status = "blocked"
                 /\ Last(steps) = StepResult(step, FALSE, FALSE, TRUE)
              \/ /\ ~run.completeSurvey /\ step > 1
                 /\ pc = "cleanup" /\ status = "success" /\ message = MsgStopped
                 /\ Len(steps) = 0 \/ Last(steps).step < step
        /\ execution /= NoExecution =>
              /\ decision.action /= "cannot_proceed"
              /\ Len(steps) > 0
              /\ Last(steps).actionSucceeded = execution.actionSucceeded
              /\ Last(steps).step = IF pc = "loop" THEN step - 1 ELSE step

C8_Witness ==
    /\ source = "fallback" /\ execution /= NoExecution
    /\ pc = "loop" /\ step = 2
    /\ run.profile.apiKey
    /\ Last(steps).actionSucceeded

\* C9: a decision request still pending when its timeoutMs has elapsed is abandoned
\* (the engine falls back): the engine is never found waiting on a request whose
\* timeout has expired
C9_TimeoutAbandonsRequest == ~(pc = "llm" /\ llm.expired)

C11_StepLimitBlocks ==
    (maxSteps >= 1 /\ step = maxSteps + 1) =>
        /\ Len(steps) >= 1 /\ Last(steps).step = maxSteps
        /\ executions = maxSteps
        /\ status = "blocked" /\ message = MsgMaxSteps
        /\ pc \in {"loop", "cleanup", "report", "done", "rejected"}
        /\ pc = "done" => (report.status = "blocked" /\ report.message = MsgMaxSteps)

C11_Witness ==
    /\ pc = "done" /\ maxSteps = 2 /\ step = 3
    /\ report.status = "blocked" /\ report.message = MsgMaxSteps
    /\ Len(report.steps) = 2 /\ report.steps[2].progressed

\* C12 as stated: when every awaited call returns or throws, every run of runSurvey
\* eventually terminates with a report whose status is success, blocked or error,
\* after at most maxSteps iterations
C12_AlwaysReports ==
    /\ <>(pc = "done")
    /\ [](pc = "done" => report.status \in {"success", "blocked", "error"})
    /\ [](Len(steps) <= OrElse(run.maxSteps, DefaultMaxSteps))

\* C12 as amended: when every awaited call returns or throws, every run of runSurvey
\* eventually terminates: it returns a report whose status is success, blocked or
\* error, or it rejects without a report (the launch before the try block, or the
\* write of the report, threw); at most maxSteps iterations are started, so at most
\* maxSteps decisions are requested, executed or recorded
C12_Terminates ==
    /\ <>(pc \in {"done", "rejected"})
    /\ [](pc = "done" => report.status \in {"success", "blocked", "error"})
    /\ [](pc = "rejected" => report = NoReport)
    /\ [](LET limit == OrElse(run.maxSteps, DefaultMaxSteps)
          IN  /\ requests <= limit /\ executions <= limit /\ Len(steps) <= limit
              /\ pc \in {"llm", "perform", "waiting"} => (1 <= step /\ step <= limit)
              /\ step <= limit + 1)

C12_Witness ==
    /\ pc = "done" /\ report.status = "success"
    /\ OrElse(run.maxSteps, DefaultMaxSteps) = 3
    /\ requests = 3 /\ executions = 3 /\ Len(report.steps) = 3

\* steps recorded so far are kept: recorded is a prefix of recorded2
IsPrefix(recorded, recorded2) ==
    /\ Len(recorded) <= Len(recorded2)
    /\ \A i \in 1..Len(recorded) : recorded2[i] = recorded[i]

\* C13 as stated: any exception thrown during opening or iterating, one thrown by
\* the execution of the action included, aborts the loop at once with status error
C13_AnyExceptionAborts ==
    [][(pc = "perform" /\ performThrew')
          => (pc' = "cleanup" /\ status' = "error" /\ message' = MsgException)]_vars

\* C13 as amended: an exception that reaches the try block of runSurvey (navigation,
\* extraction, a screenshot, executeDecision outside of perform) aborts the loop at
\* once: status error with the exception's message, the steps recorded so far kept,
\* nothing requested, executed or recorded afterwards, and the report returned
\* carries them; runSurvey then rejects only if writing the report throws. An
\* exception thrown by perform() is caught inside executeDecision and only counts as
\* a failed attempt
C13_UncaughtExceptionAborts ==
    /\ [][(status' = "error" /\ status /= "error")
             => /\ pc \in {"goto", "opening", "loop", "llm", "waiting"}
                /\ pc' = "cleanup" /\ message' = MsgException
                /\ IsPrefix(steps, steps') /\ Len(steps') <= Len(steps) + 1
                /\ requests' <= requests + 1 /\ executions' = executions]_vars
    /\ [][status = "error"
             => /\ status' = "error" /\ message' = MsgException
                /\ steps' = steps /\ requests' = requests /\ executions' = executions
                /\ pc' \in {"report", "done", "rejected"}
                /\ pc' = "rejected" => pc = "report"
                /\ pc' = "done" =>
                      report' = [status |-> "error", message |-> MsgException,
                                 steps |-> steps]]_vars
    /\ [][(pc = "perform" /\ performThrew')
             => /\ status' = status /\ message' = message /\ steps' = steps
                /\ pc' \in {"perform", "waiting"}
                /\ ~actionSucceeded'
                /\ attempt' = attempt + 1]_vars

C13_Witness ==
    /\ pc = "done" /\ report.status = "error" /\ report.message = MsgException
    /\ Len(report.steps) = 2 /\ executions = 3

\* C14 as stated: a step whose action still fails after the local retries is
\* recorded non-succeeded and non-progressed, and the run is not in error
C14_FailedActionNeverProgresses ==
    (execution /= NoExecution /\ ~execution.actionSucceeded) =>
        /\ ~Last(steps).actionSucceeded
        /\ ~Last(steps).progressed
        /\ status /= "error"

\* C14 as amended: a step whose action still fails after the 2 local attempts is
\* recorded with actionSucceeded = false and the failure does not put the run in
\* error; its progressed flag is computed as for any step, so it is false whenever
\* the page's fingerprint did not change or an assertion failed (the step then counts
\* toward stagnation) and true when the page changed nonetheless
C14_FailedActionRecorded ==
    [][(pc = "waiting" /\ execution' /= NoExecution /\ ~execution'.actionSucceeded)
          => /\ attempt = MaxAttempts
             /\ Len(steps') = Len(steps) + 1
             /\ Last(steps').step = step
             /\ Last(steps').actionSucceeded = FALSE
             /\ Last(steps').progressed =
                   (/\ stateFingerprint(execution'.afterState) /= stateFingerprint(state)
                    /\ Len(execution'.assertionsFailed) = 0)
             /\ ~Last(steps').progressed => stagnantSteps' = stagnantSteps + 1
             /\ status' /= "error"]_vars

C14_Witness ==
    /\ execution /= NoExecution /\ ~execution.actionSucceeded
    /\ ~Last(steps).actionSucceeded /\ ~Last(steps).progressed
    /\ pc = "loop" /\ status = "success" /\ step = 2

\* C15: on every exit path, a failure while closing included, the browser session is
\* closed before the report is written
C15_SessionClosedBeforeReport ==
    pc = "done" => (context = "closed" /\ browser = "closed")

C17_DebugLabels ==
    {"retry", "initial-state", "raw-state", "allowed-redirect", "prompt", "decision"}

\* what onEvent receives of the emitted events, in a verbose run or not
C17_Delivered(verbose) ==
    SelectSeq(emitted, LAMBDA e : verbose \/ ~(e.type = "log" /\ e.label \in C17_DebugLabels))

\* the place of an event in the order of a step: state, decision, artifacts, the
\* events emitted once the action was executed; 0 for the events the order leaves
\* free. stagnantRank is the place given to the artifact of the stagnation screenshot
C17_Rank(e, stagnantRank) ==
    CASE e.type = "state" -> 1
      [] e.type = "decision" -> 2
      [] e.type = "artifact" /\ e.label = "stagnant" -> stagnantRank
      [] e.type = "artifact" -> 3
      [] e.type = "status" /\ e.label = "executing" -> 4
      [] e.type = "log" /\ e.label \in {"marked-stagnant", "action-failed",
                                        "assertions-failed"} -> 4
      [] OTHER -> 0

\* the events received since the current step began come in step order, those of one
\* step in rank order, and a terminal status event is the last of them
C17_Ordered(stagnantRank) ==
    \A verbose \in BOOLEAN :
        LET d == C17_Delivered(verbose) IN
        /\ \A i, j \in DOMAIN d :
               (i < j /\ d[i].step > 0 /\ d[j].step > 0) => d[i].step <= d[j].step
        /\ \A i, j \in DOMAIN d :
               (/\ i < j /\ d[i].step > 0 /\ d[i].step = d[j].step
                /\ C17_Rank(d[i], stagnantRank) > 0 /\ C17_Rank(d[j], stagnantRank) > 0)
                   => C17_Rank(d[i], stagnantRank) <= C17_Rank(d[j], stagnantRank)
        /\ \A i \in DOMAIN d :
               (d[i].type = "status" /\ d[i].label \in {"success", "blocked", "error"})
                   => (i = Len(d) /\ pc = "done")

\* a step either adds events after those already emitted, or begins an iteration
\* whose events name no step or a later step than every event emitted before
C17_StepOrder ==
    \/ IsPrefix(emitted, emitted')
    \/ \A i \in DOMAIN emitted, j \in DOMAIN emitted' :
           emitted'[j].step > 0 => emitted[i].step < emitted'[j].step

\* C17 as stated: events come in strict step order; within a step the state event
\* precedes the decision event, which precedes every artifact event of the step,
\* which precede the events of the execution outcome; the terminal status is last
C17_ArtifactsBeforeOutcome ==
    []C17_Ordered(3) /\ [][C17_StepOrder]_vars

\* C17 as the code has it: the same order, except that the artifact of the
\* stagnation screenshot (run-survey.ts:463-467) follows the execution outcome
C17_EventOrder ==
    []C17_Ordered(5) /\ [][C17_StepOrder]_vars

C17_Witness ==
    /\ pc = "done" /\ Len(steps) = 2
    /\ SelectSeq(emitted, LAMBDA e : C17_Rank(e, 5) > 0 \/ e.step = 0)
           = <<Ev("state", 2, "state"), Ev("decision", 2, "decision"),
               Ev("status", 2, "executing"), Ev("artifact", 2, "stagnant"),
               Ev("log", 0, "summary"), Ev("status", 0, "blocked")>>

\* C18: in the run table a run's status only moves queued -> running -> success,
\* blocked or error: a run enters the table queued and stays in it, a status never
\* moves backwards, never reaches an end status except from running, and an end
\* status never changes
C18_StatusOrder ==
    [][/\ DOMAIN runs \subseteq DOMAIN runs'
       /\ \A r \in DOMAIN runs' :
             IF r \notin DOMAIN runs
             THEN runs'[r].status = "queued"
             ELSE \/ runs'[r].status = runs[r].status
                  \/ runs[r].status = "queued" /\ runs'[r].status = "running"
                  \/ /\ runs[r].status = "running"
                     /\ runs'[r].status \in {"success", "blocked", "error"}]_vars

C18_Witness ==
    /\ Len(tasks) >= 2
    /\ \E r1, r2 \in DOMAIN runs :
          /\ runs[r1].status = "success" /\ runs[r1].report /= NoReport
          /\ runs[r2].status = "error" /\ runs[r2].report = NoReport
    /\ \A t \in DOMAIN tasks : tasks[t].pc = "end"

\* C19: under every interleaving of the runs, an entry of the run table is only
\* changed by a step of the task started for that run id, every envelope carries the
\* run id its event's engine was given, and the report stored for a run is the one
\* of its own engine
C19_RunsIndependent ==
    /\ [][\A r \in DOMAIN runs :
             (r \in DOMAIN runs' /\ runs'[r] /= runs[r])
                 => \E t \in DOMAIN tasks :
                       /\ tasks[t].runId = r
                       /\ tasks'[t] /= tasks[t]
                       /\ \A u \in DOMAIN tasks \ {t} : tasks'[u] = tasks[u]]_vars
    /\ [](\A e \in published : e.runId = e.event.origin)
    /\ [][\A e \in published' \ published :
             \E t \in DOMAIN tasks :
                 tasks[t].pc = "survey" /\ tasks[t].engine = e.event.origin
                 /\ e.runId = tasks[t].runId]_vars
    /\ [](\A r \in DOMAIN runs :
             /\ runs[r].runId = r
             /\ runs[r].report /= NoReport => runs[r].report.runId = r)
    /\ [](\A t, u \in DOMAIN tasks : tasks[t].runId = tasks[u].runId => t = u)

C19_Witness ==
    /\ Len(tasks) >= 2
    /\ tasks[1].pc = "survey" /\ tasks[2].pc = "end"
    /\ runs[tasks[1].runId].status = "running"
    /\ runs[tasks[2].runId].status = "blocked"
    /\ \E e1, e2 \in published : e1.runId = tasks[1].runId /\ e2.runId = tasks[2].runId

\* C20: in a batch of more than one run, once the run in progress has ended in the
\* run table the UI starts processing the next queued run
C20_NextRunStarts ==
    (/\ Len(batch) > 1
     /\ \E t \in DOMAIN tasks :
           /\ tasks[t].input = batch[1].runId
           /\ runs[tasks[t].runId].status \in {"success", "blocked", "error"})
        ~> (Len(batch) > 1 /\ processingRunId = batch[2].runId)

\* the Batch Processor Effect never fires: of a batch only the first run is ever
\* started, no result is recorded and a batch of several runs stays in batch mode
C20_BatchNeverAdvances ==
    /\ \A t \in DOMAIN tasks :
          tasks[t].input /= 0 => (batch /= <<>> /\ tasks[t].input = batch[1].runId)
    /\ batchResults = <<>>
    /\ Len(batch) > 1 => (isBatchMode /\ Len(batchQueue) = Len(batch) - 1)
    /\ \A c \in pending : c.kind = "onRun"

\* what C21 lets the result of deterministicSelection depend on
C21_Key(a) ==
    [runId |-> a.runId, questionText |-> a.state.questionText,
     labels |-> [i \in 1..Len(a.state.options) |-> a.state.options[i].label],
     inputType |-> a.state.inputType, strategy |-> a.strategy, ruleset |-> a.ruleset]

\* C21: two calls of deterministicSelection whose run id, question text, ordered
\* option labels, input type, strategy and ruleset are equal return the same labels,
\* whatever the time, the random source and the other fields of the state are
C21_SelectionDeterministic ==
    (/\ call.fn = "deterministicSelection" /\ Len(returned) = 2
     /\ C21_Key(call.first) = C21_Key(call.second))
        => returned[1] = returned[2]

C21_Witness ==
    /\ call.fn = "deterministicSelection" /\ Len(returned) = 2
    /\ call.first.strategy = "random" /\ Len(call.first.state.options) = 3
    /\ call.first.state /= call.second.state
    /\ C21_Key(call.first) = C21_Key(call.second)
    /\ returned[1] = returned[2] /\ returned[1] = <<"B">>

\* the arguments of the i-th call and the labels of its state's options
C22_Args(i) == IF i = 1 THEN call.first ELSE call.second
C22_Labels(a) == [j \in 1..Len(a.state.options) |-> a.state.options[j].label]

\* the multiSelect rule of a call, its mode and its configured n (2 when absent)
C22_Multi(a) == IF a.ruleset.defined THEN a.ruleset.value.multiSelect ELSE Undefined
C22_Mode(a) == IF C22_Multi(a).defined THEN C22_Multi(a).value.mode ELSE "first_n"
C22_ConfiguredN(a) ==
    IF C22_Multi(a).defined THEN OrElse(C22_Multi(a).value.n, 2) ELSE 2

\* every call made for strategy ruleset on a multi_select state in mode first_n
\* returned the first min(N, number of options) labels, N given by clamp
C22_FirstLabels(clamp(_)) ==
    \A i \in 1..Len(returned) :
        LET a == C22_Args(i) IN
        (/\ call.fn = "deterministicSelection"
         /\ a.strategy = "ruleset" /\ a.state.inputType = "multi_select"
         /\ C22_Mode(a) = "first_n")
            => returned[i] = SubSeq(C22_Labels(a), 1,
                                    Min(clamp(C22_ConfiguredN(a)), Len(a.state.options)))

C24_TextRules(a) == IF a.ruleset.defined THEN a.ruleset.value.text ELSE Undefined
C24_Entries(a) == IF C24_TextRules(a).defined THEN C24_TextRules(a).value.byKeyword ELSE <<>>
C24_Default(a) ==
    IF C24_TextRules(a).defined /\ C24_TextRules(a).value.default.defined
    THEN C24_TextRules(a).value.default.value
    ELSE <<"AUTO_TEST_RESPONSE">>

\* the keys of a call's byKeyword that occur, case-insensitively, in text
C24_Matching(a, text) ==
    {i \in 1..Len(C24_Entries(a)) :
        Includes(ToLowerCase(text), ToLowerCase(C24_Entries(a)[i].key))}

\* every call returned the value of the first key occurring in searched(state), or
\* the default when none occurs
C24_FirstMatch(searched(_)) ==
    \A i \in 1..Len(returned) :
        LET a == C22_Args(i)
            m == C24_Matching(a, searched(a.state))
        IN  call.fn = "chooseTextByRuleset"
                => returned[i] = IF m = {} THEN C24_Default(a)
                                 ELSE C24_Entries(a)[CHOOSE j \in m : \A k \in m : j <= k].value

-----------------------------------------------------------------------------
\* what the claim says a fingerprint depends on
C25_Key(st) ==
    <<st.questionText, st.progress, st.options, st.filledValue>>

\* C25: two QuestionStates that agree on questionText, progress, the ordered
\* (label, selected) pairs of their options and filledValue have equal fingerprints,
\* whatever their url, supportText, inputType, navigationButtons and visibleInputCount
C25_FingerprintStable ==
    (call.fn = "stateFingerprint" /\ Len(returned) = 2
     /\ C25_Key(call.first.state) = C25_Key(call.second.state))
        => returned[1] = returned[2]

\* both fingerprints were taken of states that agree on the four rendered fields, one
\* option selected, and differ in every other field
C25_Witness ==
    /\ call.fn = "stateFingerprint"
    /\ Len(returned) = 2
    /\ C25_Key(call.first.state) = C25_Key(call.second.state)
    /\ \E i \in DOMAIN call.first.state.options : call.first.state.options[i].selected
    /\ call.first.state.url # call.second.state.url
    /\ call.first.state.supportText # call.second.state.supportText
    /\ call.first.state.inputType # call.second.state.inputType
    /\ call.first.state.navigationButtons # call.second.state.navigationButtons
    /\ call.first.state.visibleInputCount # call.second.state.visibleInputCount
    /\ returned[1] = returned[2]

-----------------------------------------------------------------------------
\* the polls of a call whose state has a changed fingerprint
C26_Changed(a) ==
    {i \in DOMAIN a.polls : stateFingerprint(a.polls[i]) # stateFingerprint(a.before)}

\* the polls of a call whose state has a changed fingerprint and is a valid surface
C26_Hits(a) ==
    {i \in C26_Changed(a) :
        a.polls[i].visibleInputCount > 0 \/ Len(a.polls[i].navigationButtons) > 0}

\* C26: waitForProgress returns progressed = true only for a polled state whose
\* fingerprint differs from the before-state's and that is valid, and then for the first
\* such state: a changed but invalid state before it does not end the polling; when the
\* timeout expires without such a state it returns progressed = false, with the state
\* extracted after the loop
C26_WaitForProgress ==
    call.fn = "waitForProgress" =>
        \A k \in DOMAIN returned :
            LET a == C22_Args(k)
                hits == C26_Hits(a)
            IN  IF hits = {}
                THEN returned[k] = [progressed |-> FALSE, afterState |-> a.final]
                ELSE /\ returned[k].progressed
                     /\ \E i \in hits :
                          /\ returned[k].afterState = a.polls[i]
                          /\ \A j \in hits : i <= j

\* a wait returned progressed = true for its third poll, after a poll that showed a
\* changed but invalid state, and with one poll less it timed out on a changed state
C26_Witness ==
    /\ call.fn = "waitForProgress"
    /\ Len(returned) = 2
    /\ C26_Hits(call.first) = {3}
    /\ C26_Changed(call.first) = {2, 3}
    /\ returned[1] = [progressed |-> TRUE, afterState |-> call.first.polls[3]]
    /\ stateFingerprint(call.second.final) # stateFingerprint(call.second.before)
    /\ returned[2] = [progressed |-> FALSE, afterState |-> call.second.final]

-----------------------------------------------------------------------------
\* executeDecision returns on an after-state with no visible input and no navigation
\* button
C27_ReturnsInvalid ==
    /\ pc = "waiting"
    /\ execution' /= NoExecution
    /\ execution'.afterState.visibleInputCount = 0
    /\ Len(execution'.afterState.navigationButtons) = 0

\* C27 as stated: a step whose after-action state is invalid is never recorded with
\* progressed = true and never resets the stagnation counter, even when that state's
\* fingerprint differs from the before-state's
C27_InvalidNeverProgresses ==
    [][C27_ReturnsInvalid
          => /\ Len(steps') = Len(steps) + 1
             /\ ~Last(steps').progressed
             /\ stagnantSteps' = stagnantSteps + 1]_vars

\* C27 as amended: for a step whose after-action state is invalid the executor's own
\* progress signal is false, and the step is recorded with progressed = true exactly
\* when that state's fingerprint differs from the before-state's and no assertion
\* failed; the stagnation counter is then reset to 0, and incremented otherwise
C27_InvalidProgressesByFingerprint ==
    [][C27_ReturnsInvalid
          => /\ ~execution'.progressed
             /\ Len(steps') = Len(steps) + 1
             /\ Last(steps').step = step
             /\ Last(steps').progressed =
                   (/\ stateFingerprint(execution'.afterState) /= stateFingerprint(state)
                    /\ Len(execution'.assertionsFailed) = 0)
             /\ stagnantSteps' = IF Last(steps').progressed THEN 0
                                 ELSE stagnantSteps + 1]_vars

\* the second step of a run ended on an invalid state with a changed fingerprint: it is
\* recorded as progressed and the stagnation counter, 1 after the first step, is 0 again
C27_Witness ==
    /\ execution /= NoExecution
    /\ ~isValidSurveySurface(execution.afterState)
    /\ stateFingerprint(execution.afterState) /= stateFingerprint(state)
    /\ ~execution.progressed
    /\ Len(steps) = 2
    /\ ~steps[1].progressed
    /\ steps[2].progressed
    /\ stagnantSteps = 0

-----------------------------------------------------------------------------
-----------------------------------------------------------------------------
\* the question text of the after-state of the k-th call differs from the before-state's
C29_QuestionChanged(k) ==
    returned[k].execution.afterState.questionText # C22_Args(k).beforeState.questionText

\* the members of a sequence
C29_Range(s) == {s[i] : i \in DOMAIN s}

\* when the question text is unchanged, every declared assertion is in exactly one of
\* assertionsPassed and assertionsFailed
C29_AssertionsPartitioned(k) ==
    \A a \in C29_Range(C22_Args(k).decision.assertions) :
        (a \in C29_Range(returned[k].execution.assertionsPassed))
            # (a \in C29_Range(returned[k].execution.assertionsFailed))

\* C29 as stated: whenever the question text of the after-state differs from the
\* before-state's, no assertion is evaluated, assertionsFailed is empty and the step is
\* recorded as progressed, the stagnation counter reset; when it is unchanged every
\* declared assertion is in exactly one of assertionsPassed and assertionsFailed
C29_QuestionChangeIsProgress ==
    call.fn = "executeDecision" =>
        \A k \in DOMAIN returned :
            IF C29_QuestionChanged(k)
            THEN /\ returned[k].execution.assertionsFailed = <<>>
                 /\ returned[k].execution.assertionsPassed = <<NavigatedToNextStep>>
                 /\ returned[k].progressed
                 /\ returned[k].stagnantSteps = 0
            ELSE C29_AssertionsPartitioned(k)

\* C29 as amended: whenever the question text of the after-state differs from the
\* before-state's, no assertion is evaluated and assertionsFailed is empty; the step is
\* recorded as progressed, the stagnation counter reset, exactly when the fingerprints
\* of the two states differ, which they do whenever neither question text contains a
\* '|'; when the question text is unchanged every declared assertion is in exactly one
\* of assertionsPassed and assertionsFailed
C29_QuestionChangeSkipsAssertions ==
    call.fn = "executeDecision" =>
        \A k \in DOMAIN returned :
            LET before == C22_Args(k).beforeState
                after == returned[k].execution.afterState
                moved == stateFingerprint(after) # stateFingerprint(before)
            IN  IF C29_QuestionChanged(k)
                THEN /\ returned[k].execution.assertionsFailed = <<>>
                     /\ returned[k].execution.assertionsPassed = <<NavigatedToNextStep>>
                     /\ returned[k].progressed = moved
                     /\ returned[k].stagnantSteps =
                            IF moved THEN 0 ELSE C22_Args(k).stagnantSteps + 1
                     /\ ("|" \notin C29_Range(Cut(before.questionText))
                         /\ "|" \notin C29_Range(Cut(after.questionText))) => moved
                ELSE C29_AssertionsPartitioned(k)

\* a step with a declared assertion that does not hold on the after-state ended on
\* another question: nothing failed, the step progressed and the counter went from 1 to 0
C29_Witness ==
    /\ call.fn = "executeDecision"
    /\ Len(returned) = 2
    /\ C29_QuestionChanged(1)
    /\ \E a \in C29_Range(call.first.decision.assertions) :
          ~checkAssertion(a, returned[1].execution.afterState)
    /\ returned[1].execution.assertionsFailed = <<>>
    /\ call.first.stagnantSteps = 1
    /\ returned[1].progressed
    /\ returned[1].stagnantSteps = 0
    /\ returned[2].stagnantSteps = 0

-----------------------------------------------------------------------------
\* the elements of a sequence that yield an option: readable and labelled
C30_Eligible(items) == SelectSeq(items, LAMBDA e : e.readable /\ e.label # "")

\* the radios and then the checkboxes of a call that yield an option
C30_Inputs(a) == C30_Eligible(a.radios) \o C30_Eligible(a.checkboxes)

\* the buttons of a call that yield an option: navigation buttons do not
C30_Choices(a) ==
    SelectSeq(C30_Eligible(a.buttons),
              LAMBDA e : LowerWord(e.label) \notin {"next", "continue", "ok", "submit",
                                                    "done", "finish", "start", "send",
                                                    "complete", "previous", "back"})

\* every discovery of a call, in discovery order
C30_Discovered(a) == C30_Inputs(a) \o C30_Choices(a)

\* the places of a label in a sequence of discoveries
C30_Places(found, label) == {i \in DOMAIN found : found[i].label = label}

C30_First(S) == CHOOSE i \in S : \A j \in S : i <= j
C30_Last(S) == CHOOSE i \in S : \A j \in S : j <= i

\* the labels of the options are pairwise distinct, they are the labels discovered, and
\* they stand in the order of their first discovery
C30_LabelsDistinct(a, options) ==
    /\ \A i, j \in DOMAIN options : options[i].label = options[j].label => i = j
    /\ {options[i].label : i \in DOMAIN options}
          = {C30_Discovered(a)[i].label : i \in DOMAIN C30_Discovered(a)}
    /\ \A i, j \in DOMAIN options :
          i < j => C30_First(C30_Places(C30_Discovered(a), options[i].label))
                     < C30_First(C30_Places(C30_Discovered(a), options[j].label))

\* C30 as stated: the option labels of an extracted state are pairwise distinct and an
\* option keeps the selected flag of the first discovery of its label among radios,
\* checkboxes and button-as-choice elements, in discovery order
C30_FirstDiscoveryWins ==
    call.fn = "extractOptions" =>
        \A k \in DOMAIN returned :
            /\ C30_LabelsDistinct(C22_Args(k), returned[k])
            /\ \A i \in DOMAIN returned[k] :
                  LET found == C30_Discovered(C22_Args(k))
                  IN  returned[k][i].selected
                        = found[C30_First(C30_Places(found, returned[k][i].label))].selected

\* C30 as amended: the option labels of an extracted state are pairwise distinct, in
\* the order of first discovery; an option has the selected flag of the last radio or
\* checkbox discovered with its label and, when there is none, of the first
\* button-as-choice with it: a button never changes an option already in the snapshot
C30_LastInputWins ==
    call.fn = "extractOptions" =>
        \A k \in DOMAIN returned :
            /\ C30_LabelsDistinct(C22_Args(k), returned[k])
            /\ \A i \in DOMAIN returned[k] :
                  LET inputs == C30_Inputs(C22_Args(k))
                      choices == C30_Choices(C22_Args(k))
                      label == returned[k][i].label
                  IN  returned[k][i].selected
                        = IF C30_Places(inputs, label) # {}
                          THEN inputs[C30_Last(C30_Places(inputs, label))].selected
                          ELSE choices[C30_First(C30_Places(choices, label))].selected

\* label A was discovered as an unselected radio, then as a selected checkbox, then as
\* a button, next to B: the snapshot holds A once, first, selected
C30_Witness ==
    /\ call.fn = "extractOptions"
    /\ Len(returned) = 2
    /\ call.first.radios = <<Element("A", FALSE, TRUE), Element("B", FALSE, TRUE)>>
    /\ call.first.checkboxes = <<Element("A", TRUE, TRUE)>>
    /\ \E i \in DOMAIN call.first.buttons : call.first.buttons[i].label = "A"
    /\ returned[1] = <<Opt("A", TRUE), Opt("B", FALSE)>>
    /\ returned[2] = returned[1]

-----------------------------------------------------------------------------
\* a snapshot with a visible input or a navigation button
C31_Valid(snapshot) ==
    snapshot.visibleInputCount > 0 \/ Len(snapshot.navigationButtons) > 0

\* the frames of a call, other than the main frame, that yield a valid snapshot
C31_ValidFrames(a) ==
    {i \in DOMAIN a.frames :
        /\ ~a.frames[i].isMain
        /\ a.frames[i].outcome # Threw
        /\ C31_Valid(a.frames[i].outcome)}

\* C31: extractQuestionState on a page returns the primary snapshot when it is valid;
\* otherwise the snapshot of the first frame, in frame order and without the main
\* frame, whose snapshot is valid, skipping the frames whose extraction throws; when no
\* frame yields a valid snapshot it returns the primary snapshot; it throws only when
\* the primary extraction does
C31_FrameFallback ==
    call.fn = "extractQuestionState" =>
        \A k \in DOMAIN returned :
            LET a == C22_Args(k)
            IN  IF a.primary = Threw THEN returned[k] = Threw
                ELSE IF C31_Valid(a.primary) THEN returned[k] = a.primary
                ELSE IF C31_ValidFrames(a) = {} THEN returned[k] = a.primary
                ELSE \E i \in C31_ValidFrames(a) :
                        /\ returned[k] = a.frames[i].outcome
                        /\ \A j \in C31_ValidFrames(a) : i <= j

\* the primary snapshot was invalid, the main frame and a failing frame came first, and
\* the third frame's valid snapshot was returned
C31_Witness ==
    /\ call.fn = "extractQuestionState"
    /\ Len(returned) = 2
    /\ call.first.primary = PageThanks
    /\ Len(call.first.frames) = 3
    /\ call.first.frames[1].isMain
    /\ call.first.frames[2].outcome = Threw
    /\ returned[1] = call.first.frames[3].outcome
    /\ returned[1] # Threw
    /\ returned[2] = returned[1]

-----------------------------------------------------------------------------
\* a step is recorded after a step that did not progress, and does not progress either
C32_SecondStagnantStep ==
    /\ Len(steps) >= 1
    /\ ~Last(steps).progressed
    /\ Len(steps') = Len(steps) + 1
    /\ ~Last(steps').progressed

\* no three consecutive recorded steps with progressed = false, and a progressed step
\* resets the stagnation counter
C32_NoThreeStagnantSteps ==
    /\ [](\A i \in 1..(Len(steps) - 2) :
             steps[i].progressed \/ steps[i + 1].progressed \/ steps[i + 2].progressed)
    /\ [](stagnantSteps \in 0..2)
    /\ [][(Len(steps') = Len(steps) + 1 /\ Last(steps').progressed)
             => stagnantSteps' = 0]_vars

\* C32 as stated: the recorded steps never hold three consecutive steps with
\* progressed = false; after the second consecutive non-progressed step the run
\* terminates, blocked or with success by the click_submit or completion rule; a
\* progressed step resets the stagnation counter to 0
C32_StagnationEndsBlockedOrSuccess ==
    /\ C32_NoThreeStagnantSteps
    /\ [][C32_SecondStagnantStep
             => /\ pc' = "cleanup"
                /\ \/ status' = "blocked" /\ message' \in {MsgStagnant, MsgCannotProceed}
                   \/ status' = "success" /\ message' \in {MsgSubmitted, MsgComplete}]_vars

\* C32 as amended: the recorded steps never hold three consecutive steps with
\* progressed = false; after the second consecutive non-progressed step the run leaves
\* the loop, blocked, or with success by the click_submit or completion rule, or in
\* error when capturing the stagnation screenshot throws; a progressed step resets the
\* stagnation counter to 0
C32_StagnationEndsRun ==
    /\ C32_NoThreeStagnantSteps
    /\ [][C32_SecondStagnantStep
             => /\ pc' = "cleanup"
                /\ \/ status' = "blocked" /\ message' \in {MsgStagnant, MsgCannotProceed}
                   \/ status' = "success" /\ message' \in {MsgSubmitted, MsgComplete}
                   \/ /\ status' = "error" /\ message' = MsgException
                      /\ ~run.profile.captureScreenshots
                      /\ stagnantSteps' = 2]_vars

\* a run progressed on its first step, then recorded two steps without progress and
\* ended blocked by the stagnation guard
C32_Witness ==
    /\ Len(steps) = 3
    /\ steps[1].progressed /\ ~steps[2].progressed /\ ~steps[3].progressed
    /\ stagnantSteps = 2
    /\ pc = "cleanup" /\ status = "blocked" /\ message = MsgStagnant

-----------------------------------------------------------------------------
\* C33: when completeSurvey is false a run executes at most one action: at most one
\* StepResult is recorded and reported, the executor is never entered after step 1, and
\* a decision obtained at step 2 ends the run with status success, unexecuted
C33_StopsBeforeCompletion ==
    /\ [](~run.completeSurvey
             => /\ Len(steps) <= 1
                /\ executions <= 1
                /\ step <= 2
                /\ (pc \in {"perform", "waiting"} => step = 1)
                /\ (report /= NoReport => Len(report.steps) <= 1))
    /\ [][(/\ ~run.completeSurvey
           /\ pc \in {"loop", "llm"}
           /\ step = 2
           /\ decision' /= NoDecision)
             => /\ pc' = "cleanup"
                /\ status' = "success" /\ message' = MsgStopped
                /\ execution' = NoExecution
                /\ executions' = executions
                /\ steps' = steps]_vars

\* a run with completeSurvey = false executed step 1, obtained a decision at step 2 and
\* stopped with success, one step recorded
C33_Witness ==
    /\ ~run.completeSurvey
    /\ pc = "cleanup"
    /\ step = 2
    /\ decision /= NoDecision
    /\ decision.action /= "cannot_proceed"
    /\ executions = 1
    /\ Len(steps) = 1
    /\ status = "success" /\ message = MsgStopped

-----------------------------------------------------------------------------
\* the messages set together with status success: completion text in the extracted
\* state, external host after the first step, completeSurvey = false after the first
\* step, the submit rule, completion text in the after-state
C34_SuccessMessages ==
    {MsgCompletionText, MsgExternal, MsgStopped, MsgSubmitted, MsgComplete}

\* C34: whenever runSurvey returns a report with status success, for every value of
\* maxSteps, a success condition occurred in the run: completion text was detected,
\* the survey left to a foreign host after the first step, completeSurvey was false
\* after the first step, or a click_submit step fired the submit rule
C34_SuccessHasCause ==
    (pc = "done" /\ report.status = "success") => report.message \in C34_SuccessMessages

\* with maxSteps >= 1 every success report has one of these causes; with maxSteps < 1
\* a run whose opening found a valid surface reports the initial status
C34_SuccessHasCauseWithinLimit ==
    (pc = "done" /\ report.status = "success") =>
        IF maxSteps >= 1
        THEN report.message \in C34_SuccessMessages
        ELSE report.message = MsgInitial /\ report.steps = <<>> /\ requests = 0

-----------------------------------------------------------------------------
\* C35: a run ends with status success through the click_submit rule only if the
\* submit click succeeded in that step: the recorded StepResult has
\* actionSucceeded = true
C35_SubmitRuleNeedsClick ==
    (pc = "cleanup" /\ status = "success" /\ message = MsgSubmitted) =>
        Last(steps).actionSucceeded

\* what the submit rule does test: the decision's action and, on the step's outcome,
\* completion text or the absence of progress; a click that failed twice and left
\* the page as it was satisfies it
C35_SubmitRuleTests ==
    (pc = "cleanup" /\ status = "success" /\ message = MsgSubmitted) =>
        /\ decision.action = "click_submit"
        /\ isCompletionLikely(execution.afterState) \/ ~Last(steps).progressed
        /\ Last(steps).actionSucceeded = execution.actionSucceeded

-----------------------------------------------------------------------------
\* run-survey.ts:368-377 and 417-428 are the only writes to steps: one StepResult
\* appended for the current iteration, either by the cannot_proceed branch (no
\* execution) or once executeDecision has returned, with the outcome of its retry
\* loop
C36_Recorded ==
    \E r \in {Last(steps')} :
        /\ steps' = Append(steps, r)
        /\ r.step = step
        /\ \/ /\ pc = "waiting"
              /\ ~AttemptLoopRuns(attempt, actionSucceeded)
              /\ r.actionSucceeded = actionSucceeded
           \/ /\ pc \in {"loop", "llm"}
              /\ decision'.action = "cannot_proceed"
              /\ executions' = executions
              /\ r = StepResult(step, FALSE, FALSE, TRUE)

\* C36: the recorded step sequence is append-only and contiguous: the i-th StepResult
\* has step number i, at most one StepResult is recorded per loop iteration, it is
\* recorded only after the action's outcome is known (or for a cannot_proceed
\* decision), and the number of recorded steps never exceeds maxSteps
C36_StepsContiguous ==
    /\ [](\A i \in 1..Len(steps) : steps[i].step = i)
    /\ [](Len(steps) \in {step - 1, step})
    /\ [](Len(steps) <= maxSteps)
    /\ [][steps' /= steps => C36_Recorded]_vars

C36_Witness ==
    /\ pc = "done"
    /\ maxSteps >= 2 /\ Len(steps) = maxSteps
    /\ report.steps = steps
    /\ \E i \in 1..Len(steps) : ~steps[i].actionSucceeded

-----------------------------------------------------------------------------
\* C37: in every reachable state of the RunController a run that is queued or running
\* has no report and no error; a run that is success or blocked has a report whose
\* status is the run's status; a run in error has a report with status error or an
\* error message
C37_RunStateConsistent ==
    \A id \in DOMAIN runs :
        /\ runs[id].status \in {"queued", "running"} =>
              runs[id].report = NoReport /\ runs[id].error = ""
        /\ runs[id].status \in {"success", "blocked"} =>
              runs[id].report /= NoReport /\ runs[id].report.status = runs[id].status
        /\ runs[id].status = "error" =>
              \/ runs[id].report /= NoReport /\ runs[id].report.status = "error"
              \/ runs[id].error /= ""

C37_Witness ==
    \E a, b \in DOMAIN runs :
        /\ runs[a].status = "error" /\ runs[a].report = NoReport /\ runs[a].error /= ""
        /\ runs[b].status \in {"success", "blocked"} /\ runs[b].report /= NoReport
        /\ \A t \in DOMAIN tasks : tasks[t].pc \in {"end", "rejected"}

-----------------------------------------------------------------------------
\* the ids randomUUID can have issued to runs
C38_RunIds == 1..(MaxPosts + MaxUrls * MaxIterations + 1)

\* C38: every run that startRun has recorded in the run table eventually reaches a
\* terminal status (success, blocked or error), given that mkdir, resolveSheetData
\* and runSurvey each eventually return or fail; no run stays queued or running
C38_EveryRunEnds ==
    \A id \in C38_RunIds :
        (id \in DOMAIN runs) ~> (id \in DOMAIN runs /\ runs[id].status \in ReportStatuses)

\* a run that was marked running does reach a terminal status
C38_RunningRunEnds ==
    \A id \in C38_RunIds :
        (id \in DOMAIN runs /\ runs[id].status = "running")
            ~> (id \in DOMAIN runs /\ runs[id].status \in ReportStatuses)

\* a run whose mkdir failed stays queued: startRun has rejected (run-controller.ts:66)
\* before the detached task that patches the run was created
C38_RejectedStaysQueued ==
    \A t \in DOMAIN tasks :
        tasks[t].pc = "rejected" =>
            /\ runs[tasks[t].runId].status = "queued"
            /\ ~ENABLED Mkdir(t) /\ ~ENABLED ResolveSheet(t)
            /\ ~ENABLED SurveyReturns(t) /\ ~ENABLED SurveyRejects(t)

-----------------------------------------------------------------------------
\* the action the priority of C40 gives for a state
C40_Action(st) ==
    IF st.inputType = "text" THEN "type_text"
    ELSE IF st.inputType \in {"single_select", "yes_no"} /\ Len(st.options) >= 1
    THEN "select_single"
    ELSE IF st.inputType = "multi_select" /\ Len(st.options) >= 1 THEN "select_multi"
    ELSE IF \E i \in 1..Len(st.navigationButtons) :
                LowerWord(st.navigationButtons[i]) \in {"submit", "finish", "done", "complete"}
    THEN "click_submit"
    ELSE IF Len(st.navigationButtons) >= 1 THEN "click_next"
    ELSE "cannot_proceed"

\* C40: fallbackDecision chooses its action by a fixed priority that ignores whether
\* the question is already answered: type_text whenever inputType is text; else
\* select_single for single_select/yes_no with at least one option; else select_multi
\* for multi_select with at least one option; else click_submit if a navigation button
\* matches submit/finish/done/complete, click_next if any other navigation button
\* exists; and cannot_proceed only when none of these applies
C40_FallbackPriority ==
    call.fn = "fallbackDecision" =>
        /\ \A i \in 1..Len(returned) :
              returned[i].action = C40_Action(C22_Args(i).state)
        /\ Len(returned) = 2 => returned[1].action = returned[2].action

C40_Witness ==
    /\ call.fn = "fallbackDecision" /\ Len(returned) = 2
    /\ call.first.state.inputType = "single_select"
    /\ Len(call.first.state.options) = 2
    /\ call.first.state.navigationButtons = <<"Submit">>
    /\ ~call.first.state.options[1].selected /\ call.second.state.options[1].selected
    /\ returned[1].action = "select_single" /\ returned[2].action = "select_single"

-----------------------------------------------------------------------------
\* every element of picked is one of labels
C39_AmongLabels(picked, labels) ==
    \A j \in 1..Len(picked) : \E k \in 1..Len(labels) : picked[j] = labels[k]

\* C39: every label returned by deterministicSelection, and so every selection of a
\* fallback decision, is the label of an option of the state it was computed from;
\* the result is empty when the state has no options, and for the strategies first,
\* last and random it is exactly one label: the first, the last, or the one at index
\* hash(seed) mod length, which is within 0..length-1
C39_SelectionFromOptions ==
    \A i \in 1..Len(returned) :
        LET a == C22_Args(i)
            labels == C22_Labels(a)
            index == seededIndex(Seed(a.runId, a.state.questionText), Len(labels))
        IN  /\ call.fn = "deterministicSelection" =>
                  /\ C39_AmongLabels(returned[i], labels)
                  /\ Len(labels) = 0 => returned[i] = <<>>
                  /\ (Len(labels) > 0 /\ a.strategy = "first") =>
                        returned[i] = <<labels[1]>>
                  /\ (Len(labels) > 0 /\ a.strategy = "last") =>
                        returned[i] = <<labels[Len(labels)]>>
                  /\ (Len(labels) > 0 /\ a.strategy = "random") =>
                        /\ index \in 0..(Len(labels) - 1)
                        /\ returned[i] = <<labels[index + 1]>>
            /\ call.fn = "fallbackDecision" =>
                  /\ C39_AmongLabels(returned[i].selections, labels)
                  /\ Len(labels) = 0 => returned[i].selections = <<>>

C39_Witness ==
    /\ call.fn = "deterministicSelection" /\ Len(returned) = 2
    /\ call.first.strategy = "random"
    /\ call.first.state.inputType = "multi_select"
    /\ Len(call.first.state.options) = MaxOptions
    /\ returned[1] \notin {<<LabelPool[1]>>, <<LabelPool[MaxOptions]>>}
    /\ Len(returned[1]) = 1

=============================================================================
